---- MODULE Spec2Model ----
(***************************************************************************)
(* A model of the rusted_realm networking core: the RC4 stream cipher      *)
(* (rotmg_networking/src/rc4.rs), the framing codec                        *)
(* (connection/codec.rs), raw packets (connection/raw_packet.rs), the      *)
(* policy-file preamble (connection/policy.rs, ext.rs) and the packet      *)
(* adapters (adapters/, packets/).                                         *)
(*                                                                         *)
(* Bytes are the integers 0..255.  A Rust slice, Vec<u8>, Bytes or         *)
(* BytesMut is a sequence of bytes; the array [u8; 256] is a function on   *)
(* 0..255 (Rust indexes from 0).                                           *)
(***************************************************************************)
EXTENDS Integers, Sequences, FiniteSets, TLC

VARIABLES
    \* ---- the cipher under test (rc4.rs) ----
    rc4_key,      \* the key handed to Rc4::new
    rc4,          \* the Rc4 instance: [i, j, state]
    rc4_used,     \* keystream bytes this instance has produced since Rc4::new
    rc4_buf,      \* the caller's byte buffer, processed in place
    rc4_orig,     \* what the caller loaded into the buffer
    rc4_passes,   \* for each process call on the buffer: rc4_used when it began
    rc4_calls,    \* number of process calls made so far
    \* ---- one connection: a listener-side and a dialing-side codec ----
    mappings,     \* the Mappings both ends were given: [mappings, binary_rc4]
    codec,        \* per side the Codec: [recv_rc4, send_rc4], or NoCodec
    out,          \* per direction: bytes the sender's encoder wrote, still to arrive
    src,          \* per direction: the receiver's inbound buffer (decode's src)
    sent,         \* per direction: the RawPackets given to encode, in order
    rcvd,         \* per direction: the RawPackets decode yielded, in order
    ret,          \* the last call on a codec and what it returned
    \* ---- the listener and the peers that connect to it ----
    peer,         \* per peer: [state, script, sent], the chunks it writes
    recvq,        \* per peer: bytes arrived at the accepted socket, not yet read
    incoming,     \* accepted streams the listener has not taken yet, in accept order
    handling,     \* the peer whose stream handle_policy_request holds, or 0
    det,          \* per peer: the loop_fn state [pc, bytes] of its detection
    written,      \* per peer: how many bytes of POLICY_FILE were written to it
    shut,         \* per peer: the detector called shutdown(Both) on its stream
    yielded,      \* the peers the listener yielded as connections, in order
    inbuf,        \* per yielded peer: what the framed codec has read off the socket
    \* ---- one Packet taken through RawPacket and through its Adapter ----
    pkt,          \* the Packet: [type, data], data the field values in declared order
    raw,          \* what RawPacket::from_packet(&pkt, &mappings) returned
    back,         \* what to_packet(&mappings) returned on that RawPacket
    encoded,      \* what put_be of the packet's struct returned and wrote
    decoded,      \* what get_be of the packet's struct returned on those bytes
    rcv,          \* a RawPacket as the decoder yields it, or NoRcv
    conv,         \* what to_packet(&mappings) returned on rcv
    \* a call on lengths too large to write out: raw_packet.rs, definitions.rs
    word,         \* size_of::<usize>() of the target: 4 or 8
    build,        \* "debug" (overflow checks) or "release" (wrapping)
    wargs,        \* the call and the sizes it is made on, or NoCall
    wres,         \* what it returned, or NoCall
    \* extractor.rs and mappings.rs: a Mappings built from a client
    client,       \* the parsed client: GameServerConnection's constant slots, the key
    all_types,    \* the order in which ALL_TYPES happens to iterate
    query,        \* the last call made on the Mappings
    answer,       \* what it returned
    \* one Adapter used on its own: primitives.rs, rle.rs, complex.rs, stat.rs
    subject,      \* the type whose Adapter is used, and the value to encode
    sink,         \* the Vec<u8> that put_be appends to
    put,          \* what put_be returned
    cursor,       \* the bytes of the buffer that get_be reads, before the call
    get,          \* what get_be returned, and what is left in the buffer
    \* avm2/primitives.rs: a parser of the bytecode on a cursor
    input,        \* the bytes of the cursor before the call
    parsed,       \* what u32::parse_avm2 returned, and what is left in the cursor
    text          \* what String::parse_avm2 returned, and what is left

rc4Vars == <<rc4_key, rc4, rc4_used, rc4_buf, rc4_orig, rc4_passes, rc4_calls>>

codecVars == <<mappings, codec, out, src, sent, rcvd, ret>>

listenerVars == <<peer, recvq, incoming, handling, det, written, shut, yielded, inbuf>>

packetVars == <<pkt, raw, back, encoded, decoded, rcv, conv>>

wideVars == <<word, build, wargs, wres>>
mapVars == <<client, all_types, query, answer>>
adapterVars == <<subject, sink, put, cursor, get>>
avmVars == <<input, parsed, text>>
harnessVars == <<wideVars, mapVars, adapterVars, avmVars>>
vars == <<rc4Vars, codecVars, listenerVars, packetVars, harnessVars>>

----------------------------------------------------------------------------
(* Bytes and sequences *)

Byte == 0..255

\* u8::wrapping_add
WrappingAdd(a, b) == (a + b) % 256

RECURSIVE BitXor(_, _, _)
BitXor(a, b, n) ==
    IF n = 0 THEN 0
    ELSE (((a % 2) + (b % 2)) % 2) + 2 * BitXor(a \div 2, b \div 2, n - 1)

RECURSIVE BitOr(_, _, _)
BitOr(a, b, n) ==
    IF n = 0 THEN 0
    ELSE (IF (a % 2) + (b % 2) > 0 THEN 1 ELSE 0) + 2 * BitOr(a \div 2, b \div 2, n - 1)

\* mutant of ByteXor: `|=` written for `^=`
ByteXor_Or(a, b) == BitOr(a, b, 8)

\* `*n ^= ...` on u8
ByteXor(a, b) == BitXor(a, b, 8)

\* the bytes of an ASCII string literal used by the tests of rc4.rs
Ascii(ch) ==
    CASE ch = " " -> 32
      [] ch = "A" -> 65 [] ch = "K" -> 75 [] ch = "P" -> 80 [] ch = "S" -> 83
      [] ch = "W" -> 87
      [] ch = "a" -> 97 [] ch = "c" -> 99 [] ch = "d" -> 100 [] ch = "e" -> 101
      [] ch = "i" -> 105 [] ch = "k" -> 107 [] ch = "l" -> 108 [] ch = "n" -> 110
      [] ch = "p" -> 112 [] ch = "r" -> 114 [] ch = "t" -> 116 [] ch = "w" -> 119
      [] ch = "x" -> 120 [] ch = "y" -> 121

AsBytes(chars) == [k \in 1..Len(chars) |-> Ascii(chars[k])]

----------------------------------------------------------------------------
(* rc4.rs *)

\* mutant of Swap: the second entry is not written back
Swap_Overwrite(S, a, b) == [S EXCEPT ![a] = S[b]]

Swap(S, a, b) == [S EXCEPT ![a] = S[b], ![b] = S[a]]

\* one iteration of the loop `for i in 0..256` of Rc4::new, on [S, j]
KeyStep(st, i, key) ==
    LET j2 == WrappingAdd(WrappingAdd(st.j, st.S[i]), key[(i % Len(key)) + 1])
    IN  [S |-> Swap(st.S, i, j2), j |-> j2]

\* the iterations lo..hi-1 of that loop, in order
RECURSIVE KeyLoop(_, _, _, _)
KeyLoop(st, lo, hi, key) ==
    IF st.j \notin Byte THEN st   \* j is a u8: never taken (st is evaluated here)
    ELSE IF hi - lo = 1 THEN KeyStep(st, lo, key)
    ELSE LET mid == (lo + hi) \div 2
         IN  KeyLoop(KeyLoop(st, lo, mid, key), mid, hi, key)

\* the state table Rc4::new builds: the identity table, then the key loop
KeySchedule(key) == KeyLoop([S |-> [k \in 0..255 |-> k], j |-> 0], 0, 256, key).S

\* mutant of Rc4New: the key byte is left out of the schedule
Rc4New_NoKey(key) == [i |-> 0, j |-> 0, state |-> KeySchedule(<<0>>)]

\* the two assert! of Rc4::new: when one fails the call panics and no
\* instance is built
KeyAsserts(key) == key # <<>> /\ Len(key) <= 256

\* Rc4::new (the two assertions on the key length are its precondition)
Rc4New(key) ==
    [i |-> 0, j |-> 0, state |-> KeySchedule(key)]

\* mutant of Rc4Next: j is not advanced by state[i]
Rc4Next_StaleJ(c) ==
    LET i2 == WrappingAdd(c.i, 1)
        S2 == Swap(c.state, i2, c.j)
    IN  [rc4 |-> [i |-> i2, j |-> c.j, state |-> S2],
         out |-> S2[WrappingAdd(S2[i2], S2[c.j])]]

\* Rc4::next: the cipher after the call and the keystream byte returned
Rc4Next(c) ==
    LET i2 == WrappingAdd(c.i, 1)
        j2 == WrappingAdd(c.j, c.state[i2])
        S2 == Swap(c.state, i2, j2)
    IN  [rc4 |-> [i |-> i2, j |-> j2, state |-> S2],
         out |-> S2[WrappingAdd(S2[i2], S2[j2])]]

\* Rc4::process: the cipher after the call and the bytes as rewritten in place
RECURSIVE Rc4ProcessFrom(_, _, _)
Rc4ProcessFrom(c, bytes, done) ==
    IF Len(done) = Len(bytes) THEN [rc4 |-> c, bytes |-> done]
    ELSE LET n == Rc4Next(c)
         IN  Rc4ProcessFrom(n.rc4, bytes,
                            Append(done, ByteXor(bytes[Len(done) + 1], n.out)))

Rc4Process(c, bytes) == Rc4ProcessFrom(c, bytes, <<>>)

----------------------------------------------------------------------------
(* mappings.rs, connection/raw_packet.rs, connection/codec.rs *)

\* RC4_LEN: the length of the key material, in bytes
RC4_LEN == 26

\* slice::split_at
SplitAt(s, n) == <<SubSeq(s, 1, n), SubSeq(s, n + 1, Len(s))>>

\* A u32 is kept as its four big-endian bytes: the tool's integers end at
\* 2^31 - 1, and a length field may hold any of the 2^32 values.
\* u32::to_be_bytes of a number below 2^31
ToBeBytes32(n) ==
    <<(n \div 16777216) % 256, (n \div 65536) % 256, (n \div 256) % 256, n % 256>>

\* Buf::get_u32_be on the first four bytes
GetU32Be(b) == SubSeq(b, 1, 4)

\* a < b on u32 (and, widened, on usize)
U32Lt(a, b) ==
    \E k \in 1..4 : a[k] < b[k] /\ \A h \in 1..(k - 1) : a[h] = b[h]

\* the number a u32 below 2^31 stands for
U32ToNat(u) == u[1] * 16777216 + u[2] * 65536 + u[3] * 256 + u[4]

\* mutant of GetCiphers: both ciphers keyed with the first half
GetCiphers_SameHalf(m) ==
    LET k == SplitAt(m.binary_rc4, RC4_LEN \div 2)
    IN  <<Rc4New(k[1]), Rc4New(k[1])>>

\* get_ciphers: the ciphers of the two halves of the key
GetCiphers(m) ==
    LET k == SplitAt(m.binary_rc4, RC4_LEN \div 2)
    IN  <<Rc4New(k[1]), Rc4New(k[2])>>

\* Codec::new_as_server
NewAsServer(m) ==
    LET c == GetCiphers(m) IN [recv_rc4 |-> c[1], send_rc4 |-> c[2]]

\* mutant of NewAsClient: the halves are assigned as on the server
NewAsClient_AsServer(m) ==
    LET c == GetCiphers(m) IN [recv_rc4 |-> c[1], send_rc4 |-> c[2]]

\* Codec::new_as_client
NewAsClient(m) ==
    LET c == GetCiphers(m) IN [send_rc4 |-> c[1], recv_rc4 |-> c[2]]

\* RawPacket::new (its debug assertion: at least 5 bytes)
RawPacketNew(bytes) == [bytes |-> bytes]

\* RawPacket::from_packet from `let mut buf` on: the frame of a wire id and
\* a serialized payload
FrameOf(id, payload) ==
    LET buf == <<0, 0, 0, 0>> \o <<id>> \o payload
        len == ToBeBytes32(Len(buf))    \* buf.len() as u32, below 2^31 here
    IN  RawPacketNew(len \o SubSeq(buf, 5, Len(buf)))

\* RawPacket::packet_id
PacketId(p) == p.bytes[5]

\* RawPacket::raw_contents
RawContents(p) == SubSeq(p.bytes, 6, Len(p.bytes))

\* what decode returns
DecodeNone == [res |-> "None", item |-> <<>>, err |-> -1]
DecodeSome(p) == [res |-> "Some", item |-> p.bytes, err |-> -1]
InvalidSize(n) == [res |-> "Err", item |-> <<>>, err |-> n]

\* mutant of Decode: the length field is read off the buffer itself, so a
\* rejected header is gone when decode returns
Decode_ConsumesHeader(c, buf) ==
    IF Len(buf) < 4 THEN [codec |-> c, src |-> buf, ret |-> DecodeNone]
    ELSE LET packet_size == GetU32Be(buf)
         IN  IF U32Lt(packet_size, ToBeBytes32(5))
             THEN [codec |-> c, src |-> SubSeq(buf, 5, Len(buf)),
                   ret |-> InvalidSize(U32ToNat(packet_size))]
             ELSE IF U32Lt(ToBeBytes32(Len(buf)), packet_size)
             THEN [codec |-> c, src |-> buf, ret |-> DecodeNone]
             ELSE LET n == U32ToNat(packet_size)
                      data == SubSeq(buf, 1, n)
                      p == Rc4Process(c.recv_rc4, SubSeq(data, 6, n))
                  IN  [codec |-> [c EXCEPT !.recv_rc4 = p.rc4],
                       src |-> SubSeq(buf, n + 1, Len(buf)),
                       ret |-> DecodeSome(RawPacketNew(SubSeq(data, 1, 5) \o p.bytes))]

\* mutant of Decode: the whole frame, header included, goes through the cipher
Decode_DecryptsHeader(c, buf) ==
    IF Len(buf) < 4 THEN [codec |-> c, src |-> buf, ret |-> DecodeNone]
    ELSE LET packet_size == GetU32Be(buf)
         IN  IF U32Lt(packet_size, ToBeBytes32(5))
             THEN [codec |-> c, src |-> buf, ret |-> InvalidSize(U32ToNat(packet_size))]
             ELSE IF U32Lt(ToBeBytes32(Len(buf)), packet_size)
             THEN [codec |-> c, src |-> buf, ret |-> DecodeNone]
             ELSE LET n == U32ToNat(packet_size)
                      data == SubSeq(buf, 1, n)
                      p == Rc4Process(c.recv_rc4, data)
                  IN  [codec |-> [c EXCEPT !.recv_rc4 = p.rc4],
                       src |-> SubSeq(buf, n + 1, Len(buf)),
                       ret |-> DecodeSome(RawPacketNew(p.bytes))]

\* mutant of Decode: the payload goes through the send cipher
Decode_UsesSendCipher(c, buf) ==
    IF Len(buf) < 4 THEN [codec |-> c, src |-> buf, ret |-> DecodeNone]
    ELSE LET packet_size == GetU32Be(buf)
         IN  IF U32Lt(packet_size, ToBeBytes32(5))
             THEN [codec |-> c, src |-> buf, ret |-> InvalidSize(U32ToNat(packet_size))]
             ELSE IF U32Lt(ToBeBytes32(Len(buf)), packet_size)
             THEN [codec |-> c, src |-> buf, ret |-> DecodeNone]
             ELSE LET n == U32ToNat(packet_size)
                      data == SubSeq(buf, 1, n)
                      p == Rc4Process(c.send_rc4, SubSeq(data, 6, n))
                  IN  [codec |-> [c EXCEPT !.send_rc4 = p.rc4],
                       src |-> SubSeq(buf, n + 1, Len(buf)),
                       ret |-> DecodeSome(RawPacketNew(SubSeq(data, 1, 5) \o p.bytes))]

\* mutant of Decode: a frame that has not come in full is dropped
Decode_DropsShort(c, buf) ==
    IF Len(buf) < 4 THEN [codec |-> c, src |-> buf, ret |-> DecodeNone]
    ELSE LET packet_size == GetU32Be(buf)
         IN  IF U32Lt(packet_size, ToBeBytes32(5))
             THEN [codec |-> c, src |-> buf, ret |-> InvalidSize(U32ToNat(packet_size))]
             ELSE IF U32Lt(ToBeBytes32(Len(buf)), packet_size)
             THEN [codec |-> c, src |-> <<>>, ret |-> DecodeNone]
             ELSE LET n == U32ToNat(packet_size)
                      data == SubSeq(buf, 1, n)
                      p == Rc4Process(c.recv_rc4, SubSeq(data, 6, n))
                  IN  [codec |-> [c EXCEPT !.recv_rc4 = p.rc4],
                       src |-> SubSeq(buf, n + 1, Len(buf)),
                       ret |-> DecodeSome(RawPacketNew(SubSeq(data, 1, 5) \o p.bytes))]

\* <Codec as Decoder>::decode: the codec and the buffer after the call, and
\* the value returned
Decode(c, buf) ==
    IF Len(buf) < 4 THEN [codec |-> c, src |-> buf, ret |-> DecodeNone]
    ELSE LET packet_size == GetU32Be(buf)
         IN  IF U32Lt(packet_size, ToBeBytes32(5))
             THEN [codec |-> c, src |-> buf, ret |-> InvalidSize(U32ToNat(packet_size))]
             ELSE IF U32Lt(ToBeBytes32(Len(buf)), packet_size)
             THEN [codec |-> c, src |-> buf, ret |-> DecodeNone]
             ELSE LET n == U32ToNat(packet_size)
                      data == SubSeq(buf, 1, n)
                      p == Rc4Process(c.recv_rc4, SubSeq(data, 6, n))
                  IN  [codec |-> [c EXCEPT !.recv_rc4 = p.rc4],
                       src |-> SubSeq(buf, n + 1, Len(buf)),
                       ret |-> DecodeSome(RawPacketNew(SubSeq(data, 1, 5) \o p.bytes))]

\* mutant of Encode: the send cipher is left as it was before the frame
Encode_KeepsCipher(c, item, dst) ==
    LET packet == item.bytes
        p == Rc4Process(c.send_rc4, SubSeq(packet, 6, Len(packet)))
    IN  [codec |-> c,
         dst |-> dst \o SubSeq(packet, 1, 5) \o p.bytes]

\* <Codec as Encoder>::encode: the codec and dst after the call
Encode(c, item, dst) ==
    LET packet == item.bytes
        p == Rc4Process(c.send_rc4, SubSeq(packet, 6, Len(packet)))
    IN  [codec |-> [c EXCEPT !.send_rc4 = p.rc4],
         dst |-> dst \o SubSeq(packet, 1, 5) \o p.bytes]

----------------------------------------------------------------------------
(* One connection between a listener (client_listener: new_as_server) and  *)
(* a dialer (server_connection: new_as_client).  TCP carries the bytes of  *)
(* each direction in order, in chunks of any size.                         *)

Side == {"server", "client"}
Dir == {"c2s", "s2c"}
Inbound(side) == IF side = "server" THEN "c2s" ELSE "s2c"
Outbound(side) == IF side = "server" THEN "s2c" ELSE "c2s"

\* no Rc4 built yet, and no Codec
NoRc4 == [i |-> 0, j |-> 0, state |-> <<>>]
NoCodec == [recv_rc4 |-> NoRc4, send_rc4 |-> NoRc4]
NoMappings == [mappings |-> {}, binary_rc4 |-> <<>>]
NoCall == [op |-> "none", side |-> "none", res |-> "none", item |-> <<>>, err |-> -1]

\* frames encoded on the connection, both directions together
MaxFrames == 2

\* key material of two builds
TestMappings ==
    { [mappings |-> {}, binary_rc4 |-> [k \in 1..RC4_LEN |-> (11 * k + 5) % 256]],
      [mappings |-> {}, binary_rc4 |-> [k \in 1..RC4_LEN |-> (k * k) % 256]] }

\* the RawPackets handed to encode: no payload, one byte, three bytes
TestFrames ==
    { FrameOf(42, <<>>), FrameOf(7, <<88>>), FrameOf(255, <<0, 255, 16>>) }

\* no connection exists (the specifications of the other parts)
NoConnection ==
    /\ mappings = NoMappings
    /\ codec = [s \in Side |-> NoCodec]
    /\ out = [d \in Dir |-> <<>>]
    /\ src = [d \in Dir |-> <<>>]
    /\ sent = [d \in Dir |-> <<>>]
    /\ rcvd = [d \in Dir |-> <<>>]
    /\ ret = NoCall

\* no listener: nobody connects
NoListener ==
    /\ peer = <<>>
    /\ recvq = <<>>
    /\ incoming = <<>>
    /\ handling = 0
    /\ det = <<>>
    /\ written = <<>>
    /\ shut = <<>>
    /\ yielded = <<>>
    /\ inbuf = <<>>

\* nothing converted yet: no Packet, no call made
NoError == [kind |-> "none", remaining |-> 0, needed |-> 0]
NoPacket == [type |-> "none", data |-> <<>>]
NoRaw == [res |-> "none", bytes |-> <<>>, err |-> NoError, unmapped |-> <<>>]
NoBack == [res |-> "none", packet |-> NoPacket, err |-> NoError, unmapped |-> <<>>]
NoRcv == [bytes |-> <<>>]
NoPut == [res |-> "none", bytes |-> <<>>, err |-> NoError]
NoGet == [res |-> "none", value |-> <<>>, rest |-> <<>>, err |-> NoError]

NoPacketTest ==
    /\ pkt = NoPacket
    /\ raw = NoRaw
    /\ back = NoBack
    /\ encoded = NoPut
    /\ decoded = NoGet
    /\ rcv = NoRcv
    /\ conv = NoBack

\* no call on sizes is being made
NoArgs == [op |-> "none"]
NoRes == [res |-> "none"]
NoWide ==
    /\ word = 0
    /\ build = "none"
    /\ wargs = NoArgs
    /\ wres = NoRes

\* no client is being extracted
NoClient == [consts |-> <<>>, strings |-> <<>>, gsc |-> FALSE]
NoExtract ==
    /\ client = NoClient
    /\ all_types = <<>>
    /\ query = NoArgs
    /\ answer = NoRes

\* no Adapter is being used on its own
NoSubject == [adapter |-> [t |-> "none"], value |-> <<>>, from |-> "none"]
NoAdapterTest ==
    /\ subject = NoSubject
    /\ sink = <<>>
    /\ put = NoPut
    /\ cursor = <<>>
    /\ get = NoGet

\* no bytecode is being parsed
NoParse ==
    /\ input = <<>>
    /\ parsed = NoRes
    /\ text = NoRes

NoHarness ==
    /\ NoWide
    /\ NoExtract
    /\ NoAdapterTest
    /\ NoParse

OnlyCodec == UNCHANGED <<rc4Vars, listenerVars, packetVars, harnessVars>>

NoRc4Test ==
    /\ rc4_key = <<>>
    /\ rc4 = NoRc4
    /\ rc4_used = 0
    /\ rc4_buf = <<>>
    /\ rc4_orig = <<>>
    /\ rc4_passes = <<>>
    /\ rc4_calls = 0

InitCodec ==
    /\ NoRc4Test
    /\ NoListener
    /\ NoPacketTest
    /\ NoHarness
    /\ mappings \in TestMappings
    /\ codec = [s \in Side |-> NoCodec]
    /\ out = [d \in Dir |-> <<>>]
    /\ src = [d \in Dir |-> <<>>]
    /\ sent = [d \in Dir |-> <<>>]
    /\ rcvd = [d \in Dir |-> <<>>]
    /\ ret = NoCall

\* client_listener: Codec::new_as_server(mappings).framed(s)
ListenerCodec ==
    /\ codec["server"] = NoCodec
    /\ codec' = [codec EXCEPT !["server"] = NewAsServer(mappings)]
    /\ ret' = [NoCall EXCEPT !.op = "new_as_server", !.side = "server", !.res = "Ok"]
    /\ UNCHANGED <<mappings, out, src, sent, rcvd>>
    /\ OnlyCodec

\* server_connection: Codec::new_as_client(mappings).framed(s)
DialerCodec ==
    /\ codec["client"] = NoCodec
    /\ codec' = [codec EXCEPT !["client"] = NewAsClient(mappings)]
    /\ ret' = [NoCall EXCEPT !.op = "new_as_client", !.side = "client", !.res = "Ok"]
    /\ UNCHANGED <<mappings, out, src, sent, rcvd>>
    /\ OnlyCodec

\* the sink half of Framed: encode(item, dst)
EncodeCall(side, item) ==
    /\ codec[side] # NoCodec
    /\ Len(sent["c2s"]) + Len(sent["s2c"]) < MaxFrames
    /\ LET r == Encode(codec[side], item, out[Outbound(side)])
       IN  /\ codec' = [codec EXCEPT ![side] = r.codec]
           /\ out' = [out EXCEPT ![Outbound(side)] = r.dst]
    /\ sent' = [sent EXCEPT ![Outbound(side)] = Append(@, item.bytes)]
    /\ ret' = [NoCall EXCEPT !.op = "encode", !.side = side, !.res = "Ok"]
    /\ UNCHANGED <<mappings, src, rcvd>>
    /\ OnlyCodec

\* the sizes of the next chunk: one byte, or all that is under way (a chunk
\* of any other size is a run of one-byte arrivals with no call in between)
ChunkSizes(d) == IF out[d] = <<>> THEN {} ELSE {1, Len(out[d])}

\* the transport: the next n bytes of a direction reach the receiver's buffer
Arrive(d, n) ==
    /\ src' = [src EXCEPT ![d] = @ \o SubSeq(out[d], 1, n)]
    /\ out' = [out EXCEPT ![d] = SubSeq(@, n + 1, Len(@))]
    /\ ret' = [NoCall EXCEPT !.op = "arrive"]
    /\ UNCHANGED <<mappings, codec, sent, rcvd>>
    /\ OnlyCodec

\* the stream half of Framed: decode(src)
DecodeCall(side) ==
    /\ codec[side] # NoCodec
    /\ LET r == Decode(codec[side], src[Inbound(side)])
       IN  /\ codec' = [codec EXCEPT ![side] = r.codec]
           /\ src' = [src EXCEPT ![Inbound(side)] = r.src]
           /\ rcvd' = [rcvd EXCEPT ![Inbound(side)] =
                         IF r.ret.res = "Some" THEN Append(@, r.ret.item) ELSE @]
           /\ ret' = [op |-> "decode", side |-> side, res |-> r.ret.res,
                      item |-> r.ret.item, err |-> r.ret.err]
    /\ UNCHANGED <<mappings, out, sent>>
    /\ OnlyCodec

NextCodec ==
    \/ ListenerCodec
    \/ DialerCodec
    \/ \E side \in Side, item \in TestFrames : EncodeCall(side, item)
    \/ \E d \in Dir : \E n \in ChunkSizes(d) : Arrive(d, n)
    \/ \E side \in Side : DecodeCall(side)

Spec == InitCodec /\ [][NextCodec]_vars

----------------------------------------------------------------------------
(* The listener's codec fed by a peer that is no codec of this library:    *)
(* the bytes of out["c2s"] are whatever the peer wrote.                    *)

\* what a peer may write: well-formed frames, length fields below 5 in
\* front of, between and behind well-formed frames, a length never reached
PeerStreams ==
    { <<0, 0, 0, 6, 42, 88>> \o <<0, 0, 0, 5, 7>> \o <<0, 0, 0, 7, 9, 1, 2>>,
      <<0, 0, 0, 5, 7>> \o <<0, 0, 0, 9, 1, 2, 3, 4, 5>>,
      <<0, 0, 0, 4>> \o <<0, 0, 0, 5, 7>>,
      <<0, 0, 0, 5, 7>> \o <<0, 0, 0, 0>> \o <<0, 0, 0, 6, 42, 88>>,
      <<0, 0, 0, 8, 255, 0, 255, 16>> \o <<0, 0, 0, 3, 1>>,
      <<0, 0, 1, 5, 42>> \o <<0, 0, 0, 5, 7>> \o <<0, 0>>,
      <<128, 0, 0, 5, 42, 0, 0, 0, 0>> }

InitDecode ==
    /\ NoRc4Test
    /\ NoListener
    /\ NoPacketTest
    /\ NoHarness
    /\ mappings \in TestMappings
    /\ codec = [s \in Side |-> NoCodec]
    /\ \E stream \in PeerStreams : out = [d \in Dir |-> IF d = "c2s" THEN stream ELSE <<>>]
    /\ src = [d \in Dir |-> <<>>]
    /\ sent = [d \in Dir |-> <<>>]
    /\ rcvd = [d \in Dir |-> <<>>]
    /\ ret = NoCall

NextDecode ==
    \/ ListenerCodec
    \/ \E n \in ChunkSizes("c2s") : Arrive("c2s", n)
    \/ DecodeCall("server")

SpecDecode == InitDecode /\ [][NextDecode]_vars

----------------------------------------------------------------------------
(* The cipher on its own: a caller that builds ciphers from one key and    *)
(* processes a buffer in place, as the tests of rc4.rs do.                 *)

MaxCalls == 3

\* keys: the three of rc4.rs's tests, a 1-byte key, a 13-byte half key, a
\* 256-byte key (the longest Rc4::new accepts), and the two nearest keys it
\* does not accept: the empty one and one of 257 bytes
TestKeys ==
    { AsBytes(<<"K", "e", "y">>),
      AsBytes(<<"W", "i", "k", "i">>),
      AsBytes(<<"S", "e", "c", "r", "e", "t">>),
      <<0>>,
      [k \in 1..13 |-> (17 * k) % 256],
      [k \in 1..256 |-> (7 * k + 3) % 256],
      <<>>,
      [k \in 1..257 |-> (7 * k + 3) % 256] }

TestInputs ==
    { AsBytes(<<"P", "l", "a", "i", "n", "t", "e", "x", "t">>),
      AsBytes(<<"p", "e", "d", "i", "a">>),
      AsBytes(<<"A", "t", "t", "a", "c", "k", " ", "a", "t", " ", "d", "a", "w", "n">>),
      <<>>,
      <<0, 255>>,
      [k \in 1..100 |-> (37 * k) % 256] }

InitRc4 ==
    /\ NoConnection
    /\ NoListener
    /\ NoPacketTest
    /\ NoHarness
    /\ rc4_key \in TestKeys
    /\ rc4 = IF KeyAsserts(rc4_key) THEN Rc4New(rc4_key) ELSE NoRc4
    /\ rc4_used = 0
    /\ rc4_buf = <<>>
    /\ rc4_orig = <<>>
    /\ rc4_passes = <<>>
    /\ rc4_calls = 0

\* the cipher's caller has no connection
OnlyRc4 == UNCHANGED <<codecVars, listenerVars, packetVars, harnessVars>>

\* let mut rc4 = Rc4::new(key): a fresh instance replaces the old one
Rc4Renew ==
    /\ KeyAsserts(rc4_key)
    /\ rc4_used > 0
    /\ rc4' = Rc4New(rc4_key)
    /\ rc4_used' = 0
    /\ UNCHANGED <<rc4_key, rc4_buf, rc4_orig, rc4_passes, rc4_calls>>
    /\ OnlyRc4

\* let mut bytes = input.to_vec()
Rc4Load(x) ==
    /\ KeyAsserts(rc4_key)
    /\ rc4_passes # <<>> \/ rc4_buf = <<>>
    /\ x # rc4_orig \/ rc4_passes # <<>>
    /\ rc4_buf' = x
    /\ rc4_orig' = x
    /\ rc4_passes' = <<>>
    /\ UNCHANGED <<rc4_key, rc4, rc4_used, rc4_calls>>
    /\ OnlyRc4

\* rc4.process(&mut bytes[..])
Rc4ProcessBuf ==
    /\ KeyAsserts(rc4_key)
    /\ rc4_calls < MaxCalls
    /\ LET r == Rc4Process(rc4, rc4_buf)
       IN  /\ rc4' = r.rc4
           /\ rc4_buf' = r.bytes
    /\ rc4_used' = rc4_used + Len(rc4_buf)
    /\ rc4_passes' = Append(rc4_passes, rc4_used)
    /\ rc4_calls' = rc4_calls + 1
    /\ UNCHANGED <<rc4_key, rc4_orig>>
    /\ OnlyRc4

NextRc4 ==
    \/ Rc4Renew
    \/ \E x \in TestInputs : Rc4Load(x)
    \/ Rc4ProcessBuf

SpecRc4 == InitRc4 /\ [][NextRc4]_vars

----------------------------------------------------------------------------
(* connection/policy.rs, ext.rs, connection/mod.rs: client_listener.  Peers *)
(* connect and write chunks of bytes; the listener takes the accepted      *)
(* streams one by one through handle_policy_request.                       *)

\* b"<policy-file-request/>\0"
POLICY_REQUEST ==
   <<
      60, 112, 111, 108, 105, 99, 121, 45, 102, 105, 108, 101, 45, 114, 101,
      113, 117, 101, 115, 116, 47, 62, 0
   >>

\* the cross-domain policy document, from its leading to its final newline
POLICY_FILE ==
   <<
      10, 60, 63, 120, 109, 108, 32, 118, 101, 114, 115, 105, 111, 110, 61,
      34, 49, 46, 48, 34, 63, 62, 10, 60, 33, 68, 79, 67, 84, 89, 80, 69, 32,
      99, 114, 111, 115, 115, 45, 100, 111, 109, 97, 105, 110, 45, 112, 111,
      108, 105, 99, 121, 32, 83, 89, 83, 84, 69, 77, 32, 34, 47, 120, 109,
      108, 47, 100, 116, 100, 115, 47, 99, 114, 111, 115, 115, 45, 100, 111,
      109, 97, 105, 110, 45, 112, 111, 108, 105, 99, 121, 46, 100, 116, 100,
      34, 62, 10, 60, 99, 114, 111, 115, 115, 45, 100, 111, 109, 97, 105,
      110, 45, 112, 111, 108, 105, 99, 121, 62, 10, 32, 32, 32, 32, 60, 115,
      105, 116, 101, 45, 99, 111, 110, 116, 114, 111, 108, 32, 112, 101, 114,
      109, 105, 116, 116, 101, 100, 45, 99, 114, 111, 115, 115, 45, 100, 111,
      109, 97, 105, 110, 45, 112, 111, 108, 105, 99, 105, 101, 115, 61, 34,
      97, 108, 108, 34, 47, 62, 10, 32, 32, 32, 32, 60, 97, 108, 108, 111,
      119, 45, 97, 99, 99, 101, 115, 115, 45, 102, 114, 111, 109, 32, 100,
      111, 109, 97, 105, 110, 61, 34, 42, 34, 32, 116, 111, 45, 112, 111,
      114, 116, 115, 61, 34, 42, 34, 47, 62, 10, 60, 47, 99, 114, 111, 115,
      115, 45, 100, 111, 109, 97, 105, 110, 45, 112, 111, 108, 105, 99, 121,
      62, 10
   >>

\* slice::starts_with
StartsWith(s, prefix) == Len(prefix) <= Len(s) /\ prefix = SubSeq(s, 1, Len(prefix))

\* a peek that takes what it returns off the socket, as a read would
PeekMax_Reads(q, max) ==
    LET bytes_read == IF Len(q) < max THEN Len(q) ELSE max
    IN  [bytes |-> SubSeq(q, 1, bytes_read), queue |-> SubSeq(q, bytes_read + 1, Len(q))]

\* PeekMax::poll on a socket holding q: at most max bytes, which stay in the socket
PeekMax(q, max) ==
    LET bytes_read == IF Len(q) < max THEN Len(q) ELSE max
    IN  [bytes |-> SubSeq(q, 1, bytes_read), queue |-> q]

\* a detector that answers as soon as the bytes peeked look like a request
PolicyLoop_Eager(bytes) ==
    IF bytes # <<>> /\ StartsWith(POLICY_REQUEST, bytes) THEN "write"
    ELSE IF StartsWith(POLICY_REQUEST, bytes) THEN "peek"
    ELSE "some"

\* a detector that hands a stream over when the bytes peeked are only the
\* beginning of a request
PolicyLoop_NoWait(bytes) ==
    IF bytes = POLICY_REQUEST THEN "write"
    ELSE IF bytes = <<>> THEN "peek"
    ELSE "some"

\* the closure of loop_fn: which future the loop state `bytes` leads to
PolicyLoop(bytes) ==
    IF bytes = POLICY_REQUEST THEN "write"
    ELSE IF StartsWith(POLICY_REQUEST, bytes) THEN "peek"
    ELSE "some"

MaxPeers == 2
Peers == 1..MaxPeers

\* what a peer writes, chunk by chunk
PeerScripts ==
    { <<POLICY_REQUEST>>,
      <<SubSeq(POLICY_REQUEST, 1, 5), SubSeq(POLICY_REQUEST, 6, 23)>>,
      <<POLICY_REQUEST \o <<0, 0, 0, 5, 7>>>>,
      <<SubSeq(POLICY_REQUEST, 1, 22), <<88, 0, 0, 0, 5>>>>,
      <<SubSeq(POLICY_REQUEST, 1, 22) \o <<1>>>>,
      <<<<0, 0, 0, 5, 7>>>>,
      <<SubSeq(POLICY_REQUEST, 1, 5)>>,
      <<>> }

RECURSIVE Concat(_, _)
Concat(chunks, n) == IF n = 0 THEN <<>> ELSE Concat(chunks, n - 1) \o chunks[n]

\* every byte peer p has written so far
Arrived(p) == Concat(peer[p].script, peer[p].sent)

NoPeer == [state |-> "none", script |-> <<>>, sent |-> 0]
NoDetect == [pc |-> "waiting", bytes |-> <<>>]

OnlyListener == UNCHANGED <<rc4Vars, codecVars, packetVars, harnessVars>>

InitListener ==
    /\ NoRc4Test
    /\ NoConnection
    /\ NoPacketTest
    /\ NoHarness
    /\ peer = [p \in Peers |-> NoPeer]
    /\ recvq = [p \in Peers |-> <<>>]
    /\ incoming = <<>>
    /\ handling = 0
    /\ det = [p \in Peers |-> NoDetect]
    /\ written = [p \in Peers |-> 0]
    /\ shut = [p \in Peers |-> FALSE]
    /\ yielded = <<>>
    /\ inbuf = [p \in Peers |-> <<>>]

\* a peer connects: TcpListener::incoming yields the streams in accept order
Connect(p, script) ==
    /\ peer[p].state = "none"
    /\ \A q \in Peers : q < p => peer[q].state # "none"
    /\ peer' = [peer EXCEPT ![p] = [state |-> "open", script |-> script, sent |-> 0]]
    /\ incoming' = Append(incoming, p)
    /\ UNCHANGED <<recvq, handling, det, written, shut, yielded, inbuf>>
    /\ OnlyListener

\* the peer's next chunk arrives at the accepted socket
PeerSend(p) ==
    /\ peer[p].state = "open"
    /\ ~shut[p]
    /\ peer[p].sent < Len(peer[p].script)
    /\ recvq' = [recvq EXCEPT ![p] = @ \o peer[p].script[peer[p].sent + 1]]
    /\ peer' = [peer EXCEPT ![p].sent = @ + 1]
    /\ UNCHANGED <<incoming, handling, det, written, shut, yielded, inbuf>>
    /\ OnlyListener

\* the peer has written all it will and closes its side
PeerClose(p) ==
    /\ peer[p].state = "open"
    /\ ~shut[p]
    /\ peer[p].sent = Len(peer[p].script)
    /\ peer' = [peer EXCEPT ![p].state = "closed"]
    /\ UNCHANGED <<recvq, incoming, handling, det, written, shut, yielded, inbuf>>
    /\ OnlyListener

\* mutant of StartDetect: the next accepted stream is taken up while a
\* detection is in flight
StartDetect_Concurrent ==
    /\ incoming # <<>>
    /\ handling' = Head(incoming)
    /\ incoming' = Tail(incoming)
    /\ det' = [det EXCEPT ![Head(incoming)] = [pc |-> PolicyLoop(<<>>), bytes |-> <<>>]]
    /\ UNCHANGED <<peer, recvq, written, shut, yielded, inbuf>>
    /\ OnlyListener

\* and_then(handle_policy_request): with no detection in flight the next
\* accepted stream starts loop_fn with (stream, vec![])
StartDetect ==
    /\ handling = 0
    /\ incoming # <<>>
    /\ handling' = Head(incoming)
    /\ incoming' = Tail(incoming)
    /\ det' = [det EXCEPT ![Head(incoming)] = [pc |-> PolicyLoop(<<>>), bytes |-> <<>>]]
    /\ UNCHANGED <<peer, recvq, written, shut, yielded, inbuf>>
    /\ OnlyListener

\* peek_max(23) resolves (data in the socket, or end of stream) and the loop
\* closure runs on what it returned; Break(Some(stream)) goes through
\* filter_map and map and is yielded as a framed connection
PeekStep(p) ==
    /\ handling = p
    /\ det[p].pc = "peek"
    /\ recvq[p] # <<>> \/ peer[p].state = "closed"
    /\ LET r == PeekMax(recvq[p], Len(POLICY_REQUEST))
           next == PolicyLoop(r.bytes)
       IN  /\ recvq' = [recvq EXCEPT ![p] = r.queue]
           /\ det' = [det EXCEPT ![p] = [pc |-> next, bytes |-> r.bytes]]
           /\ IF next = "some"
              THEN /\ yielded' = Append(yielded, p)
                   /\ handling' = 0
              ELSE UNCHANGED <<yielded, handling>>
    /\ UNCHANGED <<peer, incoming, written, shut, inbuf>>
    /\ OnlyListener

\* how much of what is left one write to the socket may take
WriteSizes(left) == {left, (left + 1) \div 2}

\* write_all(stream, POLICY_FILE): one poll_write that takes n bytes
WriteStep(p, n) ==
    /\ handling = p
    /\ det[p].pc = "write"
    /\ written[p] < Len(POLICY_FILE)
    /\ written' = [written EXCEPT ![p] = @ + n]
    /\ UNCHANGED <<peer, recvq, incoming, handling, det, shut, yielded, inbuf>>
    /\ OnlyListener

\* write_all is done: stream.shutdown(Shutdown::Both), then Break(None),
\* which filter_map drops
ShutdownStep(p) ==
    /\ handling = p
    /\ det[p].pc = "write"
    /\ written[p] = Len(POLICY_FILE)
    /\ shut' = [shut EXCEPT ![p] = TRUE]
    /\ det' = [det EXCEPT ![p].pc = "none"]
    /\ handling' = 0
    /\ UNCHANGED <<peer, recvq, incoming, written, yielded, inbuf>>
    /\ OnlyListener

\* the framed codec of a yielded connection reads what the socket holds
FramedRead(p) ==
    /\ \E k \in 1..Len(yielded) : yielded[k] = p
    /\ recvq[p] # <<>>
    /\ inbuf' = [inbuf EXCEPT ![p] = @ \o recvq[p]]
    /\ recvq' = [recvq EXCEPT ![p] = <<>>]
    /\ UNCHANGED <<peer, incoming, handling, det, written, shut, yielded>>
    /\ OnlyListener

\* the steps of the task that polls the listener
ListenerStep ==
    \/ StartDetect
    \/ \E p \in Peers : PeekStep(p)
    \/ \E p \in Peers : \E n \in WriteSizes(Len(POLICY_FILE) - written[p]) : WriteStep(p, n)
    \/ \E p \in Peers : ShutdownStep(p)
    \/ \E p \in Peers : FramedRead(p)

NextListener ==
    \/ \E p \in Peers : \E script \in PeerScripts : Connect(p, script)
    \/ \E p \in Peers : PeerSend(p)
    \/ \E p \in Peers : PeerClose(p)
    \/ ListenerStep

\* the executor polls the listener's task whenever it can make progress
SpecListener == InitListener /\ [][NextListener]_vars /\ WF_vars(ListenerStep)

----------------------------------------------------------------------------
(* adapter/mod.rs, adapter/primitives.rs, adapters/rle.rs,                 *)
(* adapters/complex.rs, packets/packet_data/stat.rs, packets/data/basic.rs *)
(* and packets/definitions.rs: the Adapter implementations.                *)
(*                                                                         *)
(* A type is a record with a tag t; a value of an integer type is an       *)
(* integer, of f32 its bit pattern (to_bits), of bool a boolean, of String *)
(* its UTF-8 bytes, of Vec a sequence, of Option the empty or a one-element *)
(* sequence, of a struct the tuple of its fields in declared order.        *)

U8 == [t |-> "int", size |-> 1, signed |-> FALSE]
U16 == [t |-> "int", size |-> 2, signed |-> FALSE]
U32 == [t |-> "int", size |-> 4, signed |-> FALSE]
I8 == [t |-> "int", size |-> 1, signed |-> TRUE]
I16 == [t |-> "int", size |-> 2, signed |-> TRUE]
I32 == [t |-> "int", size |-> 4, signed |-> TRUE]
F32 == [t |-> "f32"]
Bool == [t |-> "bool"]
RleString(S) == [t |-> "rle_string", s |-> S]
RleVec(T, S) == [t |-> "rle_vec", elem |-> T, s |-> S]
OptionOf(T) == [t |-> "option", elem |-> T]
Struct(fields) == [t |-> "struct", fields |-> fields]
StatDataT == [t |-> "stat"]
PicT == [t |-> "pic"]

\* Result<(), Error> of put_be with what it wrote, Result<T, Error> of
\* get_be with what is left in the buffer
PutOk(bytes) == [res |-> "Ok", bytes |-> bytes, err |-> NoError]
PutErr(kind, bytes) ==
    [res |-> "Err", bytes |-> bytes, err |-> [kind |-> kind, remaining |-> 0, needed |-> 0]]
GetOk(v, rest) == [res |-> "Ok", value |-> v, rest |-> rest, err |-> NoError]
GetErr(kind, rest) ==
    [res |-> "Err", value |-> <<>>, rest |-> rest,
     err |-> [kind |-> kind, remaining |-> 0, needed |-> 0]]

\* mutant of InsufficientBytes: the bytes that were left are read before
\* the failure is reported
InsufficientBytes_Partial(remaining, needed, rest) ==
    [res |-> "Err", value |-> <<>>, rest |-> <<>>,
     err |-> [kind |-> "InsufficientBytes", remaining |-> remaining, needed |-> needed]]

\* Err(Error::InsufficientBytes { remaining, needed }), the buffer holding rest
InsufficientBytes(remaining, needed, rest) ==
    [res |-> "Err", value |-> <<>>, rest |-> rest,
     err |-> [kind |-> "InsufficientBytes", remaining |-> remaining, needed |-> needed]]

\* to_be_bytes of an integer of 1, 2 or 4 bytes (two's complement when
\* negative: \div rounds down and % is never negative)
ToBeBytes(v, size) ==
    IF size = 1 THEN <<v % 256>>
    ELSE IF size = 2 THEN <<(v \div 256) % 256, v % 256>>
    ELSE <<(v \div 16777216) % 256, (v \div 65536) % 256, (v \div 256) % 256, v % 256>>

\* from_be_bytes; the unsigned 4-byte values modelled are those below 2^31
FromBeBytes(b, signed) ==
    IF Len(b) = 1 THEN (IF signed /\ b[1] >= 128 THEN b[1] - 256 ELSE b[1])
    ELSE IF Len(b) = 2
    THEN (IF signed /\ b[1] >= 128 THEN b[1] * 256 + b[2] - 65536 ELSE b[1] * 256 + b[2])
    ELSE IF signed
    THEN LET low == (b[1] % 128) * 16777216 + b[2] * 65536 + b[3] * 256 + b[4]
         IN  IF b[1] >= 128 THEN (low - 2147483647) - 1 ELSE low
    ELSE b[1] * 16777216 + b[2] * 65536 + b[3] * 256 + b[4]

\* mutant of FitsPrefix: every length is taken to fit
FitsPrefix_Always(len, S) == TRUE

\* S::from_usize(len) is Some
FitsPrefix(len, S) ==
    IF S.size = 1 THEN len < (IF S.signed THEN 128 ELSE 256)
    ELSE IF S.size = 2 THEN len < (IF S.signed THEN 32768 ELSE 65536)
    ELSE TRUE

\* the continuation bytes that follow a first byte c; -1 when c is none
Following(c) ==
    IF c < 128 THEN 0
    ELSE IF c \in 194..223 THEN 1
    ELSE IF c \in 224..239 THEN 2
    ELSE IF c \in 240..244 THEN 3
    ELSE -1

\* String::from_utf8 accepts the bytes from position k on: every first byte
\* has its continuation bytes, every continuation byte its first byte
IsUtf8(b, k) ==
    \A j \in k..Len(b) :
        LET c == b[j]
            Cont(n) == j + n <= Len(b) /\ b[j + n] \in 128..191
        IN  IF c \in 128..191
            THEN \E n \in 1..3 :
                    /\ j - n >= k
                    /\ Following(b[j - n]) >= n
                    /\ \A i \in 1..(n - 1) : b[j - i] \in 128..191
            ELSE /\ Following(c) >= 0
                 /\ \A n \in 1..Following(c) : Cont(n)
                 /\ c = 224 => b[j + 1] >= 160
                 /\ c = 237 => b[j + 1] <= 159
                 /\ c = 240 => b[j + 1] >= 144
                 /\ c = 244 => b[j + 1] <= 143

\* define_stat_types!: the values that name a StatType, and those of String stats
StatTypes == (0..99) \ {23, 24, 25}
StringStats == {31, 38, 54, 62, 82}

\* StatType::is_string
IsString(typ) == typ \in StringStats

\* StatType::from_byte: VALID_TYPES has 255 entries, so index 255 panics
StatTypeFromByte(byte) ==
    IF byte >= 255 THEN [panic |-> TRUE, typ |-> <<>>]
    ELSE IF byte \in StatTypes THEN [panic |-> FALSE, typ |-> <<byte>>]
    ELSE [panic |-> FALSE, typ |-> <<>>]

\* StatData::String(typ, str) and StatData::Integer(typ, int)
StatString(typ, str) == [string |-> TRUE, typ |-> typ, int |-> 0, str |-> str]
StatInteger(typ, int) == [string |-> FALSE, typ |-> typ, int |-> int, str |-> <<>>]

RECURSIVE PutBe(_, _), PutFields(_, _, _), PutEach(_, _, _, _)

\* define_adapter!, define_data!: $( $fieldname.put_be(bytes)?; )* from field k on
PutFields(tys, vals, k) ==
    IF k > Len(tys) THEN PutOk(<<>>)
    ELSE LET a == PutBe(tys[k], vals[k])
         IN  IF a.res # "Ok" THEN a
             ELSE LET b == PutFields(tys, vals, k + 1)
                  IN  [b EXCEPT !.bytes = a.bytes \o @]

\* self.inner.iter().try_for_each(|i| i.put_be(buffer)) on the elements
\* lo..hi, the first half and then, if that went well, the second
PutEach(T, items, lo, hi) ==
    IF lo > hi THEN PutOk(<<>>)
    ELSE IF lo = hi THEN PutBe(T, items[lo])
    ELSE LET mid == (lo + hi) \div 2
             a == PutEach(T, items, lo, mid)
         IN  IF a.res # "Ok" THEN a
             ELSE LET b == PutEach(T, items, mid + 1, hi)
                  IN  [b EXCEPT !.bytes = a.bytes \o @]

\* Adapter::put_be of a value v of type ty: the result and the bytes written
PutBe(ty, v) ==
    CASE ty.t = "int" -> PutOk(ToBeBytes(v, ty.size))
      [] ty.t = "f32" -> PutBe(U32, v)
      [] ty.t = "bool" -> PutBe(U8, IF v THEN 1 ELSE 0)
      [] ty.t = "rle_string" ->
            IF FitsPrefix(Len(v), ty.s)
            THEN PutOk(ToBeBytes(Len(v), ty.s.size) \o v)
            ELSE PutErr("InvalidData", <<>>)
      [] ty.t = "rle_vec" ->
            IF FitsPrefix(Len(v), ty.s)
            THEN LET b == PutEach(ty.elem, v, 1, Len(v))
                 IN  [b EXCEPT !.bytes = ToBeBytes(Len(v), ty.s.size) \o @]
            ELSE PutErr("InvalidData", <<>>)
      [] ty.t = "option" -> IF v = <<>> THEN PutOk(<<>>) ELSE PutBe(ty.elem, v[1])
      [] ty.t = "struct" -> PutFields(ty.fields, v, 1)
      [] ty.t = "stat" ->
            IF v.string
            THEN (IF IsString(v.typ) THEN PutBe(RleString(U16), v.str)
                  ELSE PutErr("InvalidData", <<>>))
            ELSE (IF ~IsString(v.typ) THEN PutBe(I32, v.int)
                  ELSE PutErr("InvalidData", <<>>))
      [] ty.t = "pic" ->
            PutOk(ToBeBytes(v[1], 4) \o ToBeBytes(v[2], 4) \o v[3])

RECURSIVE GetBe(_, _), GetFields(_, _, _, _), GetEach(_, _, _, _)

\* define_adapter!, define_data!: $( let $fieldname = Adapter::get_be(bytes)?; )*
\* from field k on, got holding the fields read so far
GetFields(tys, buf, k, got) ==
    IF k > Len(tys) THEN GetOk(got, buf)
    ELSE LET a == GetBe(tys[k], buf)
         IN  IF a.res # "Ok" THEN a
             ELSE GetFields(tys, a.rest, k + 1, Append(got, a.value))

\* (0..len).map(|_| T::get_be(bytes)).collect::<Result<Vec<T>>>(): n more
\* elements after those in got, the first half and then the rest
GetEach(T, n, buf, got) ==
    IF n = 0 THEN GetOk(got, buf)
    ELSE IF n = 1
    THEN LET a == GetBe(T, buf)
         IN  IF a.res # "Ok" THEN a ELSE GetOk(Append(got, a.value), a.rest)
    ELSE LET a == GetEach(T, n \div 2, buf, got)
         IN  IF a.res # "Ok" THEN a
             ELSE GetEach(T, n - (n \div 2), a.rest, a.value)

\* Adapter::get_be of type ty on the buffer buf: the result and what is left
GetBe(ty, buf) ==
    CASE ty.t = "int" ->
            IF Len(buf) < ty.size THEN InsufficientBytes(Len(buf), ty.size, buf)
            ELSE GetOk(FromBeBytes(SubSeq(buf, 1, ty.size), ty.signed),
                       SubSeq(buf, ty.size + 1, Len(buf)))
      [] ty.t = "f32" -> GetBe(U32, buf)
      [] ty.t = "bool" ->
            LET b == GetBe(U8, buf)
            IN  IF b.res # "Ok" THEN b ELSE GetOk(b.value # 0, b.rest)
      [] ty.t = "rle_vec" ->
            LET len == GetBe(ty.s, buf)
            IN  IF len.res # "Ok" THEN len
                ELSE IF len.value < 0 THEN GetErr("InvalidData", len.rest)
                ELSE GetEach(ty.elem, len.value, len.rest, <<>>)
      [] ty.t = "rle_string" ->
            LET bytes == GetBe(RleVec(U8, ty.s), buf)
            IN  IF bytes.res # "Ok" THEN bytes
                ELSE IF IsUtf8(bytes.value, 1) THEN bytes
                ELSE GetErr("Other", bytes.rest)
      [] ty.t = "option" ->
            IF buf # <<>>
            THEN LET a == GetBe(ty.elem, buf)
                 IN  IF a.res # "Ok" THEN a ELSE GetOk(<<a.value>>, a.rest)
            ELSE GetOk(<<>>, buf)
      [] ty.t = "struct" -> GetFields(ty.fields, buf, 1, <<>>)
      [] ty.t = "stat" ->
            LET byte == GetBe(U8, buf)
            IN  IF byte.res # "Ok" THEN byte
                ELSE LET typ == StatTypeFromByte(byte.value)
                     IN  IF typ.panic THEN GetErr("panic", byte.rest)
                         ELSE IF typ.typ = <<>> THEN GetErr("InvalidData", byte.rest)
                         ELSE IF IsString(typ.typ[1])
                         THEN LET str == GetBe(RleString(U16), byte.rest)
                              IN  IF str.res # "Ok" THEN str
                                  ELSE GetOk(StatString(typ.typ[1], str.value), str.rest)
                         ELSE LET int == GetBe(I32, byte.rest)
                              IN  IF int.res # "Ok" THEN int
                                  ELSE GetOk(StatInteger(typ.typ[1], int.value), int.rest)
      [] ty.t = "pic" ->
            LET w == GetBe(U32, buf)
            IN  IF w.res # "Ok" THEN w
                ELSE LET h == GetBe(U32, w.rest)
                     IN  IF h.res # "Ok" THEN h
                         ELSE LET reqd_bytes == w.value * h.value * 4
                              IN  IF Len(h.rest) >= reqd_bytes
                                  THEN GetOk(<<w.value, h.value, SubSeq(h.rest, 1, reqd_bytes)>>,
                                             SubSeq(h.rest, reqd_bytes + 1, Len(h.rest)))
                                  ELSE InsufficientBytes(Len(h.rest), reqd_bytes, h.rest)

\* packets/data/basic.rs: define_data!
WorldPosData == Struct(<<F32, F32>>)
GroundTileData == Struct(<<U16, U16, U16>>)
SlotObjectData == Struct(<<U32, U8, U32>>)
ObjectStatusData == Struct(<<U32, WorldPosData, RleVec(StatDataT, U16)>>)
ObjectData == Struct(<<U16, ObjectStatusData>>)

\* the packet kinds modelled: every field type of define_packets! occurs
PacketTypes ==
    { "CancelTrade", "Create", "Load", "PlayerText", "InvDrop", "TradeChanged",
      "AccountList", "Damage", "EnemyShoot", "File", "Goto", "NewTick", "Pic",
      "Ping", "Update" }

\* define_packets!: the fields of each kind, in declared order
PacketFields(kind) ==
    CASE kind = "CancelTrade" -> <<>>
      [] kind = "Create" -> <<U16, U16>>
      [] kind = "Load" -> <<U32, Bool>>
      [] kind = "PlayerText" -> <<RleString(U16)>>
      [] kind = "InvDrop" -> <<SlotObjectData>>
      [] kind = "TradeChanged" -> <<RleVec(Bool, U16)>>
      [] kind = "AccountList" -> <<U32, RleVec(RleString(U16), U16), U32>>
      [] kind = "Damage" -> <<U32, RleVec(U8, U8), U16, Bool, Bool, U8, U32>>
      [] kind = "EnemyShoot" ->
            <<U8, U32, U8, WorldPosData, F32, U16, OptionOf(U8), OptionOf(F32)>>
      [] kind = "File" -> <<RleString(U16), RleString(U32)>>
      [] kind = "Goto" -> <<U32, WorldPosData>>
      [] kind = "NewTick" -> <<U32, U32, RleVec(ObjectStatusData, U16)>>
      [] kind = "Ping" -> <<U32>>
      [] kind = "Update" ->
            <<RleVec(GroundTileData, U16), RleVec(ObjectData, U16), RleVec(U32, U16)>>

\* the Adapter of a packet kind: derived by define_adapter!, or Pic's own
AdapterOf(kind) == IF kind = "Pic" THEN PicT ELSE Struct(PacketFields(kind))

\* Packet::to_bytes and Packet::from_bytes (SERIALIZERS, DESERIALIZERS)
ToBytes(p) == PutBe(AdapterOf(p.type), p.data)
FromBytes(typ, contents) == GetBe(AdapterOf(typ), contents)

\* Mappings::to_game and Mappings::to_internal on the pairs <<id, type>>
ToGame(m, packet_type) ==
    LET ids == {pr[1] : pr \in {q \in m.mappings : q[2] = packet_type}}
    IN  IF ids = {} THEN <<>> ELSE <<CHOOSE id \in ids : TRUE>>
ToInternal(m, id) ==
    LET typs == {pr[2] : pr \in {q \in m.mappings : q[1] = id}}
    IN  IF typs = {} THEN <<>> ELSE <<CHOOSE typ \in typs : TRUE>>

\* RawPacket::from_packet: Ok(RawPacket), Err(AdapterError(e)) or
\* Err(UnmappedPacketType(packet.get_type()))
FromPacket(p, m) ==
    LET id == ToGame(m, p.type)
    IN  IF id # <<>>
        THEN LET b == ToBytes(p)
             IN  IF b.res # "Ok"
                 THEN [res |-> "AdapterError", bytes |-> <<>>, err |-> b.err,
                       unmapped |-> <<>>]
                 ELSE [res |-> "Ok", bytes |-> FrameOf(id[1], b.bytes).bytes,
                       err |-> NoError, unmapped |-> <<>>]
        ELSE [res |-> "UnmappedPacketType", bytes |-> <<>>, err |-> NoError,
              unmapped |-> <<p.type>>]

\* RawPacket::to_packet: Ok(Packet), Err(AdapterError(e)) or
\* Err(UnmappedPacketType(self.packet_id())); a panic inside the adapter is
\* no return at all
ToPacket(r, m) ==
    LET typ == ToInternal(m, PacketId(r))
    IN  IF typ # <<>>
        THEN LET g == FromBytes(typ[1], RawContents(r))
             IN  IF g.res = "Ok"
                 THEN [res |-> "Ok", packet |-> [type |-> typ[1], data |-> g.value],
                       err |-> NoError, unmapped |-> <<>>]
                 ELSE IF g.err.kind = "panic"
                 THEN [res |-> "panic", packet |-> NoPacket, err |-> g.err,
                       unmapped |-> <<>>]
                 ELSE [res |-> "AdapterError", packet |-> NoPacket, err |-> g.err,
                       unmapped |-> <<>>]
        ELSE [res |-> "UnmappedPacketType", packet |-> NoPacket, err |-> NoError,
              unmapped |-> <<PacketId(r)>>]

(* A caller that takes one Packet through RawPacket::from_packet and       *)
(* to_packet, and through put_be and get_be of its struct.                 *)

\* the pairs of two builds: one maps every kind modelled, one leaves
\* Pic and Ping out
PacketMappings ==
    { [mappings |-> { <<10, "CancelTrade">>, <<11, "Create">>, <<12, "Load">>,
                      <<13, "PlayerText">>, <<14, "InvDrop">>, <<15, "TradeChanged">>,
                      <<16, "AccountList">>, <<17, "Damage">>, <<18, "EnemyShoot">>,
                      <<19, "File">>, <<20, "Goto">>, <<21, "NewTick">>, <<22, "Pic">>,
                      <<0, "Ping">>, <<255, "Update">> },
       binary_rc4 |-> [k \in 1..RC4_LEN |-> (11 * k + 5) % 256]],
      [mappings |-> { <<91, "CancelTrade">>, <<3, "Create">>, <<45, "Load">>,
                      <<9, "PlayerText">>, <<27, "InvDrop">>, <<56, "TradeChanged">>,
                      <<82, "AccountList">>, <<75, "Damage">>, <<35, "EnemyShoot">>,
                      <<106, "File">>, <<18, "Goto">>, <<10, "NewTick">>,
                      <<62, "Update">> },
       binary_rc4 |-> [k \in 1..RC4_LEN |-> (11 * k + 5) % 256]] }

\* ObjectStatusData { object_id: 3, pos: (1.0, 0.0), stats }
StatusWith(stats) == <<3, <<1065353216, 0>>, stats>>

\* EnemyShoot with the two optional fields as given
EnemyShootWith(num_shots, angle_inc) ==
    [type |-> "EnemyShoot",
     data |-> <<1, 2, 3, <<0, 1065353216>>, 1078530011, 10, num_shots, angle_inc>>]

TestPackets ==
    << [type |-> "CancelTrade", data |-> <<>>],
      [type |-> "Create", data |-> <<1, 65535>>],
      [type |-> "Load", data |-> <<7, TRUE>>],
      [type |-> "Load", data |-> <<2147483647, FALSE>>],
      [type |-> "PlayerText", data |-> << <<>> >>],
      [type |-> "PlayerText", data |-> << <<104, 105, 195, 169>> >>],
      [type |-> "InvDrop", data |-> << <<1, 2, 3>> >>],
      [type |-> "TradeChanged", data |-> << <<>> >>],
      [type |-> "TradeChanged", data |-> << <<TRUE, FALSE, TRUE>> >>],
      [type |-> "AccountList", data |-> <<1, << <<97>>, <<>>, <<98, 99>> >>, 0>>],
      [type |-> "Damage", data |-> <<9, <<1, 2>>, 300, TRUE, FALSE, 4, 10>>],
      [type |-> "Damage", data |-> <<9, [k \in 1..255 |-> k], 300, FALSE, TRUE, 4, 10>>],
      [type |-> "Damage", data |-> <<9, [k \in 1..256 |-> 1], 300, FALSE, TRUE, 4, 10>>],
      EnemyShootWith(<<>>, <<>>),
      EnemyShootWith(<<5>>, <<>>),
      EnemyShootWith(<<5>>, <<1065353216>>),
      EnemyShootWith(<<>>, <<1065353216>>),
      [type |-> "File", data |-> << <<97>>, <<98, 99>> >>],
      [type |-> "Goto", data |-> <<3, <<0, 1065353216>> >>],
      [type |-> "NewTick", data |-> <<1, 2, <<>> >>],
      [type |-> "NewTick", data |-> <<1, 2, << StatusWith(<<>>) >> >>],
      [type |-> "NewTick", data |-> <<1, 2, << StatusWith(<< StatInteger(1, 5) >>) >> >>],
      [type |-> "NewTick", data |-> <<1, 2, << StatusWith(<< StatInteger(1, -1) >>) >> >>],
      [type |-> "NewTick", data |-> <<1, 2, << StatusWith(<< StatInteger(1, 150994944) >>) >> >>],
      [type |-> "NewTick",
       data |-> <<1, 2, << StatusWith(<< StatInteger(1, 5), StatInteger(4, 7) >>) >> >>],
      [type |-> "NewTick", data |-> <<1, 2, << StatusWith(<< StatString(31, <<97>>) >>) >> >>],
      [type |-> "NewTick", data |-> <<1, 2, << StatusWith(<< StatString(1, <<97>>) >>) >> >>],
      [type |-> "NewTick", data |-> <<1, 2, << StatusWith(<< StatInteger(31, 5) >>) >> >>],
      [type |-> "Pic", data |-> <<0, 0, <<>> >>],
      [type |-> "Pic", data |-> <<1, 1, <<1, 2, 3, 4>> >>],
      [type |-> "Pic", data |-> <<1, 1, <<1, 2>> >>],
      [type |-> "Pic", data |-> <<1, 1, <<1, 2, 3, 4, 5>> >>],
      [type |-> "Ping", data |-> <<0>>],
      [type |-> "Ping", data |-> <<2147483647>>],
      [type |-> "Update", data |-> << <<>>, <<>>, <<>> >>],
      [type |-> "Update", data |-> << << <<1, 2, 3>> >>, <<>>, <<7, 8>> >>],
      [type |-> "Update", data |-> << <<>>, << <<5, StatusWith(<<>>)>> >>, <<7>> >>],
      [type |-> "Update",
       data |-> << <<>>, << <<5, StatusWith(<< StatInteger(0, 0) >>)>> >>, <<7>> >>] >>

\* NewTick { tick_id: 1, tick_time: 2, statuses: [one status] } on the wire,
\* its one status holding one stat whose bytes are as given
NewTickWire(stat) ==
    <<0, 0, 0, 1, 0, 0, 0, 2, 0, 1, 0, 0, 0, 3, 63, 128, 0, 0, 0, 0, 0, 0, 0, 1>> \o stat

\* payloads a peer may send
TestContents ==
    { <<>>, <<0, 0>>, <<0, 0, 0, 5>>, <<0, 0, 0, 5, 9>>, <<1, 2, 3>>,
      <<0, 1, 255>>, <<0, 2, 104, 105>>,
      NewTickWire(<<1, 0, 0, 0, 5>>), NewTickWire(<<31, 0, 1, 97>>),
      NewTickWire(<<23, 0, 0, 0, 5>>), NewTickWire(<<100, 0, 0, 0, 5>>),
      NewTickWire(<<255, 0, 0, 0, 5>>) }

\* wire ids a peer may send: of Ping, Create, PlayerText, NewTick and Pic in
\* one build or the other, and two that neither build maps
TestIds == {0, 3, 9, 10, 11, 13, 21, 22, 200, 254}

\* the RawPackets the decoder yields for them
TestRaws == {FrameOf(id, contents) : id \in TestIds, contents \in TestContents}

InitPacket ==
    /\ NoRc4Test
    /\ NoListener
    /\ NoHarness
    /\ mappings \in PacketMappings
    /\ codec = [s \in Side |-> NoCodec]
    /\ out = [d \in Dir |-> <<>>]
    /\ src = [d \in Dir |-> <<>>]
    /\ sent = [d \in Dir |-> <<>>]
    /\ rcvd = [d \in Dir |-> <<>>]
    /\ ret = NoCall
    /\ \/ (\E k \in 1..Len(TestPackets) : pkt = TestPackets[k]) /\ rcv = NoRcv
       \/ pkt = NoPacket /\ rcv \in TestRaws
    /\ raw = NoRaw
    /\ back = NoBack
    /\ encoded = NoPut
    /\ decoded = NoGet
    /\ conv = NoBack

OnlyPacket == UNCHANGED <<rc4Vars, codecVars, listenerVars, harnessVars>>

\* let raw = RawPacket::from_packet(&packet, &mappings)
FromPacketCall ==
    /\ pkt # NoPacket
    /\ raw = NoRaw
    /\ raw' = FromPacket(pkt, mappings)
    /\ UNCHANGED <<pkt, back, encoded, decoded, rcv, conv>>
    /\ OnlyPacket

\* raw.to_packet(&mappings) on the RawPacket that from_packet returned
ToPacketCall ==
    /\ raw.res = "Ok"
    /\ back = NoBack
    /\ back' = ToPacket(raw, mappings)
    /\ UNCHANGED <<pkt, raw, encoded, decoded, rcv, conv>>
    /\ OnlyPacket

\* packet.put_be(&mut buffer) on an empty Vec
PutBeCall ==
    /\ pkt # NoPacket
    /\ encoded = NoPut
    /\ encoded' = ToBytes(pkt)
    /\ UNCHANGED <<pkt, raw, back, decoded, rcv, conv>>
    /\ OnlyPacket

\* Adapter::get_be(&mut buffer.into_buf()) for the packet's struct
GetBeCall ==
    /\ encoded.res = "Ok"
    /\ decoded = NoGet
    /\ decoded' = FromBytes(pkt.type, encoded.bytes)
    /\ UNCHANGED <<pkt, raw, back, encoded, rcv, conv>>
    /\ OnlyPacket

\* rcv.to_packet(&mappings) on a RawPacket the decoder yielded; to_packet
\* takes &self
ConvertCall ==
    /\ rcv # NoRcv
    /\ conv = NoBack
    /\ conv' = ToPacket(rcv, mappings)
    /\ UNCHANGED <<pkt, raw, back, encoded, decoded, rcv>>
    /\ OnlyPacket

NextPacket ==
    \/ FromPacketCall
    \/ ToPacketCall
    \/ PutBeCall
    \/ GetBeCall
    \/ ConvertCall

SpecPacket == InitPacket /\ [][NextPacket]_vars

----------------------------------------------------------------------------
(* usize arithmetic of raw_packet.rs and definitions.rs on sizes up to and *)
(* beyond the machine word.  A size is a tuple of WideBytes bytes, least   *)
(* significant first; a buffer is given by its length alone.               *)

WideBytes == 12

\* the size n, for n below 2^31
Wide(n) == [k \in 1..WideBytes |-> IF k <= 4 THEN (n \div (256 ^ (k - 1))) % 256 ELSE 0]

\* from_be_bytes, and `as usize` of the outcome
WideOfBe(b) == [k \in 1..WideBytes |-> IF k <= Len(b) THEN b[Len(b) + 1 - k] ELSE 0]

\* the mathematical sum and product
RECURSIVE WideAddFrom(_, _, _, _)
WideAddFrom(a, b, k, carry) ==
    IF k > WideBytes THEN <<>>
    ELSE LET t == a[k] + b[k] + carry
         IN  <<t % 256>> \o WideAddFrom(a, b, k + 1, t \div 256)
WideAdd(a, b) == WideAddFrom(a, b, 1, 0)

RECURSIVE Column(_, _, _, _)
Column(a, b, k, i) == IF i > k THEN 0 ELSE a[i] * b[k + 1 - i] + Column(a, b, k, i + 1)
RECURSIVE WideMulFrom(_, _, _, _)
WideMulFrom(a, b, k, carry) ==
    IF k > WideBytes THEN <<>>
    ELSE LET t == Column(a, b, k, 1) + carry
         IN  <<t % 256>> \o WideMulFrom(a, b, k + 1, t \div 256)
WideMul(a, b) == WideMulFrom(a, b, 1, 0)

\* a <= b, decided from byte k down
RECURSIVE WideLeFrom(_, _, _)
WideLeFrom(a, b, k) ==
    IF k = 0 THEN TRUE
    ELSE IF a[k] # b[k] THEN a[k] < b[k]
    ELSE WideLeFrom(a, b, k - 1)
WideLe(a, b) == WideLeFrom(a, b, WideBytes)

\* the value modulo 2^(8n): what n bytes keep of it
WrapTo(a, n) == [k \in 1..WideBytes |-> IF k <= n THEN a[k] ELSE 0]
FitsIn(a, n) == WrapTo(a, n) = a

\* isize::MAX of the target, the most bytes an allocation can hold
IsizeMax(wd) == [k \in 1..WideBytes |-> IF k < wd THEN 255 ELSE IF k = wd THEN 127 ELSE 0]

\* a * b on usize: overflow panics with overflow checks and wraps without
UsizeMul(a, b, wd, bld) ==
    LET p == WideMul(a, b)
    IN  IF FitsIn(p, wd) THEN [panic |-> FALSE, v |-> p]
        ELSE IF bld = "debug" THEN [panic |-> TRUE, v |-> p]
        ELSE [panic |-> FALSE, v |-> WrapTo(p, wd)]

\* `len as u32` and to_be_bytes of it
AsU32Be(a) == <<a[4], a[3], a[2], a[1]>>

\* RawPacket::from_packet on Packet::File { filename, file } with strings of
\* n1 and n2 bytes: the length of the buffer built and the four bytes
\* stored at its start
FromPacketLen(n1, n2, m, wd) ==
    LET id == ToGame(m, "File")
        payload == WideAdd(WideAdd(Wide(2), n1), WideAdd(Wide(4), n2))
        len == WideAdd(Wide(5), payload)
    IN  IF id = <<>> THEN [res |-> "UnmappedPacketType"]
        ELSE IF ~FitsIn(n1, U16.size) \/ ~FitsIn(n2, U32.size)
        THEN [res |-> "AdapterError"]
        ELSE IF ~WideLe(len, IsizeMax(wd)) THEN [res |-> "panic"]
        ELSE [res |-> "Ok", len |-> len, head |-> AsU32Be(len), id |-> id[1]]

\* Pic::get_be on a buffer that holds w, h and then `remaining` bytes
PicGetBeLen(w, h, remaining, wd, bld) ==
    LET wh == UsizeMul(WideOfBe(w), WideOfBe(h), wd, bld)
        reqd_bytes == UsizeMul(wh.v, Wide(4), wd, bld)
    IN  IF wh.panic \/ reqd_bytes.panic THEN [res |-> "panic"]
        ELSE IF WideLe(reqd_bytes.v, remaining)
        THEN [res |-> "Ok", w |-> w, h |-> h, bitmap_len |-> reqd_bytes.v]
        ELSE [res |-> "InsufficientBytes", remaining |-> remaining,
              needed |-> reqd_bytes.v]

\* sizes near the edges of 16, 31 and 32 bits
U32Edges ==
    { <<0, 0, 0, 0>>, <<0, 0, 0, 1>>, <<0, 0, 0, 2>>, <<0, 0, 128, 0>>, <<0, 1, 0, 0>>,
      <<64, 0, 0, 0>>, <<128, 0, 0, 0>>, <<128, 0, 0, 1>>, <<255, 255, 255, 255>> }
TestLengths ==
    { Wide(0), Wide(1), Wide(4), Wide(16), Wide(65535), Wide(65536),
      WideOfBe(<<127, 255, 255, 240>>), WideOfBe(<<255, 255, 255, 244>>),
      WideOfBe(<<255, 255, 255, 245>>), WideOfBe(<<255, 255, 255, 255>>),
      WideOfBe(<<1, 0, 0, 0, 0>>), WideOfBe(<<2, 0, 0, 0, 0>>) }

InitWide ==
    /\ NoRc4Test
    /\ NoListener
    /\ NoPacketTest
    /\ NoExtract
    /\ NoAdapterTest
    /\ NoParse
    /\ mappings \in PacketMappings
    /\ codec = [s \in Side |-> NoCodec]
    /\ out = [d \in Dir |-> <<>>]
    /\ src = [d \in Dir |-> <<>>]
    /\ sent = [d \in Dir |-> <<>>]
    /\ rcvd = [d \in Dir |-> <<>>]
    /\ ret = NoCall
    /\ word \in {4, 8}
    /\ build \in {"debug", "release"}
    /\ \/ \E n1 \in {Wide(0), Wide(1), Wide(65535), Wide(65536)}, n2 \in TestLengths :
             /\ WideLe(n1, IsizeMax(word)) /\ WideLe(n2, IsizeMax(word))
             /\ wargs = [op |-> "from_packet", n1 |-> n1, n2 |-> n2]
       \/ \E w \in U32Edges, h \in U32Edges, remaining \in TestLengths :
             /\ WideLe(remaining, IsizeMax(word))
             /\ wargs = [op |-> "get_be", w |-> w, h |-> h, remaining |-> remaining]
    /\ wres = NoRes

OnlyWide ==
    UNCHANGED <<rc4Vars, codecVars, listenerVars, packetVars, mapVars, adapterVars, avmVars>>

\* RawPacket::from_packet(&Packet::File(..), &mappings)
FromPacketWide ==
    /\ wargs.op = "from_packet"
    /\ wres = NoRes
    /\ wres' = FromPacketLen(wargs.n1, wargs.n2, mappings, word)
    /\ UNCHANGED <<word, build, wargs>>
    /\ OnlyWide

\* Pic::get_be(&mut bytes)
PicGetBeWide ==
    /\ wargs.op = "get_be"
    /\ wres = NoRes
    /\ wres' = PicGetBeLen(wargs.w, wargs.h, wargs.remaining, word, build)
    /\ UNCHANGED <<word, build, wargs>>
    /\ OnlyWide

NextWide ==
    \/ FromPacketWide
    \/ PicGetBeWide

SpecWide == InitWide /\ [][NextWide]_vars

----------------------------------------------------------------------------
(* extractor.rs and mappings.rs: the wire table collected from the         *)
(* constant slots of GameServerConnection, Mappings::new on it, and the    *)
(* lookups.  A name is the tuple of its character codes; the BiHashMap is  *)
(* the set of its pairs <<id, kind>>.                                      *)

\* get_name_mappings: stringify!($name)
TypeName(kind) ==
    CASE kind = "CancelTrade" -> <<67, 97, 110, 99, 101, 108, 84, 114, 97, 100, 101>>
      [] kind = "Create" -> <<67, 114, 101, 97, 116, 101>>
      [] kind = "Load" -> <<76, 111, 97, 100>>
      [] kind = "PlayerText" -> <<80, 108, 97, 121, 101, 114, 84, 101, 120, 116>>
      [] kind = "InvDrop" -> <<73, 110, 118, 68, 114, 111, 112>>
      [] kind = "TradeChanged" -> <<84, 114, 97, 100, 101, 67, 104, 97, 110, 103, 101, 100>>
      [] kind = "AccountList" -> <<65, 99, 99, 111, 117, 110, 116, 76, 105, 115, 116>>
      [] kind = "Damage" -> <<68, 97, 109, 97, 103, 101>>
      [] kind = "EnemyShoot" -> <<69, 110, 101, 109, 121, 83, 104, 111, 111, 116>>
      [] kind = "File" -> <<70, 105, 108, 101>>
      [] kind = "Goto" -> <<71, 111, 116, 111>>
      [] kind = "NewTick" -> <<78, 101, 119, 84, 105, 99, 107>>
      [] kind = "Pic" -> <<80, 105, 99>>
      [] kind = "Ping" -> <<80, 105, 110, 103>>
      [] kind = "Update" -> <<85, 112, 100, 97, 116, 101>>

\* str::to_lowercase on ASCII, and str::replace(c, "")
ToLowercase(s) == [k \in 1..Len(s) |-> IF s[k] \in 65..90 THEN s[k] + 32 ELSE s[k]]
RemoveChar(s, c) == SelectSeq(s, LAMBDA x : x # c)

\* mutant of BiInsert: the pair is added and nothing is overwritten
BiInsert_Keep(t, l, r) == t \cup {<<l, r>>}

\* BiHashMap::insert: the pairs that hold l or r are overwritten
BiInsert(t, l, r) == {p \in t : p[1] # l /\ p[2] # r} \cup {<<l, r>>}

\* `id as u8` of an i32
AsU8(i) == i % 256

\* a constant slot holding an Int, and one holding anything else
SlotInt(name, i) == [name |-> name, int |-> TRUE, i |-> i]
SlotOther(name) == [name |-> name, int |-> FALSE, i |-> 0]

\* ParsedClient::extract_packets from slot k on: names holds the kinds not
\* yet removed, table the pairs collected so far
RECURSIVE ExtractFrom(_, _, _, _)
ExtractFrom(consts, k, names, table) ==
    IF k > Len(consts) THEN table
    ELSE LET t == consts[k]
             name == RemoveChar(ToLowercase(t.name), 95)
             hit == {kind \in names : ToLowercase(TypeName(kind)) = name}
         IN  IF ~t.int \/ hit = {} THEN ExtractFrom(consts, k + 1, names, table)
             ELSE LET pkt_type == CHOOSE kind \in hit : TRUE
                  IN  ExtractFrom(consts, k + 1, names \ {pkt_type},
                                  BiInsert(table, AsU8(t.i), pkt_type))
ExtractPackets(consts) == ExtractFrom(consts, 1, PacketTypes, {})

\* hex::decode: the bytes, or <<"err">> on an odd length or a character
\* that is no hex digit
HexDigit(c) ==
    IF c \in 48..57 THEN c - 48
    ELSE IF c \in 97..102 THEN c - 87
    ELSE IF c \in 65..70 THEN c - 55
    ELSE -1
HexDecode(s) ==
    IF Len(s) % 2 = 1 \/ \E k \in 1..Len(s) : HexDigit(s[k]) < 0 THEN <<"err">>
    ELSE [k \in 1..(Len(s) \div 2) |-> 16 * HexDigit(s[2 * k - 1]) + HexDigit(s[2 * k])]

\* Mappings::new
MappingsNew(table, hex_rc4) ==
    LET b == HexDecode(hex_rc4)
    IN  IF b = <<"err">> THEN [res |-> "InvalidRC4Hex", value |-> NoMappings]
        ELSE IF Len(b) # RC4_LEN THEN [res |-> "InvalidRC4Len", value |-> NoMappings]
        ELSE [res |-> "Ok", value |-> [mappings |-> table, binary_rc4 |-> b]]

\* mutant of ExtractRc4: nth(2), the string one further on
ExtractRc4_Nth2(strings) ==
    LET at == {k \in 1..Len(strings) : strings[k] = <<114, 99, 52>>}
        first == IF at = {} THEN Len(strings) + 1
                 ELSE CHOOSE k \in at : \A j \in at : k <= j
    IN  IF first + 2 > Len(strings) THEN [res |-> "NoRC4Found", value |-> <<>>]
        ELSE [res |-> "Ok", value |-> strings[first + 2]]

\* ParsedClient::extract_rc4: skip_while(|&s| s != "rc4") leaves the table
\* from the first "rc4" on, and nth(1) is its element of index 1
ExtractRc4(strings) ==
    LET at == {k \in 1..Len(strings) : strings[k] = <<114, 99, 52>>}
        first == IF at = {} THEN Len(strings) + 1
                 ELSE CHOOSE k \in at : \A j \in at : k <= j
    IN  IF first + 1 > Len(strings) THEN [res |-> "NoRC4Found", value |-> <<>>]
        ELSE [res |-> "Ok", value |-> strings[first + 1]]

\* ParsedClient::extract_mappings: the first error of extract_rc4,
\* extract_packets (the class is not found) and Mappings::new, or the Mappings
ExtractMappingsOf(c) ==
    LET hex == ExtractRc4(c.strings)
    IN  IF hex.res # "Ok" THEN [res |-> hex.res, value |-> NoMappings]
        ELSE IF ~c.gsc THEN [res |-> "ClassNotFound", value |-> NoMappings]
        ELSE MappingsNew(ExtractPackets(c.consts), hex.value)

\* BiHashMap::contains_right
ContainsRight(t, r) == \E p \in t : p[2] = r

\* mutant of FindUnmapped: the filter is not negated
FindUnmapped_Mapped(m, order) ==
    SelectSeq(order, LAMBDA typ : ContainsRight(m.mappings, typ))

\* Mappings::find_unmapped, collected: the kinds that the filter lets
\* through, in the order ALL_TYPES iterates
FindUnmapped(m, order) == SelectSeq(order, LAMBDA typ : ~ContainsRight(m.mappings, typ))

\* the slot names of a client: of kinds, and one of no kind
PING == <<80, 73, 78, 71>>
NEW_TICK == <<78, 69, 87, 95, 84, 73, 67, 75>>
CREATE_SUCCESS == <<67, 82, 69, 65, 84, 69, 95, 83, 85, 67, 67, 69, 83, 83>>
TestSlots ==
    {SlotInt(n, i) : n \in {PING, NEW_TICK, CREATE_SUCCESS}, i \in {5, 261, -247}}
        \cup {SlotOther(PING)}

\* the rc4 strings of a client: a key, one a character short, one two short,
\* one with a character that is no digit
HexKey ==
    <<54, 97, 51, 57, 53, 55, 48, 99, 99, 57, 100, 101, 52, 101, 99, 55, 49, 100, 54, 52, 56, 50, 49, 56, 57, 52, 99, 55, 57, 51, 51, 50, 98, 49, 57, 55, 102, 57, 50, 98, 97, 56, 53, 101, 100, 50, 56, 49, 97, 48, 50, 51>>
TestHex == {HexKey, SubSeq(HexKey, 1, 51), SubSeq(HexKey, 1, 50), [HexKey EXCEPT ![7] = 103]}

\* the string tables of a client: "rc4" followed by each rc4 string, by
\* nothing, by another string and then the key, by "rc4" again, and without it
TestPools ==
    LET lit == <<114, 99, 52>>
    IN  {<<<<>>, lit, hex>> : hex \in TestHex}
            \cup { <<<<>>, PING, lit, HexKey, NEW_TICK>>,
                   <<<<>>, lit, NEW_TICK, HexKey>>,
                   <<<<>>, lit, lit, HexKey>>,
                   <<<<>>, HexKey, lit>>,
                   <<<<>>, PING, HexKey>> }

MaxSlots == 3

\* orders in which the HashSet of all kinds may iterate
TestOrders ==
    { <<"CancelTrade", "Create", "Load", "PlayerText", "InvDrop", "TradeChanged",
        "AccountList", "Damage", "EnemyShoot", "File", "Goto", "NewTick", "Pic",
        "Ping", "Update">>,
      <<"Update", "Ping", "Pic", "NewTick", "Goto", "File", "EnemyShoot", "Damage",
        "AccountList", "TradeChanged", "InvDrop", "PlayerText", "Load", "Create",
        "CancelTrade">> }

InitExtract ==
    /\ NoRc4Test
    /\ NoListener
    /\ NoPacketTest
    /\ NoWide
    /\ NoAdapterTest
    /\ NoParse
    /\ codec = [s \in Side |-> NoCodec]
    /\ out = [d \in Dir |-> <<>>]
    /\ src = [d \in Dir |-> <<>>]
    /\ sent = [d \in Dir |-> <<>>]
    /\ rcvd = [d \in Dir |-> <<>>]
    /\ ret = NoCall
    /\ \/ /\ mappings = NoMappings
          /\ \/ \E n \in 0..MaxSlots : \E consts \in [1..n -> TestSlots] :
                   \E strings \in TestPools :
                      client = [consts |-> consts, strings |-> strings, gsc |-> TRUE]
             \/ \E strings \in TestPools :
                   client = [consts |-> <<>>, strings |-> strings, gsc |-> FALSE]
       \/ /\ mappings \in PacketMappings
          /\ client = NoClient
    /\ all_types \in TestOrders
    /\ query = NoArgs
    /\ answer = NoRes

OnlyExtract ==
    UNCHANGED <<rc4Vars, listenerVars, packetVars, wideVars, adapterVars, avmVars,
                codec, out, src, sent, rcvd, ret>>

\* parsed.extract_rc4()
ExtractRc4Call ==
    /\ client # NoClient
    /\ query = NoArgs
    /\ query' = [op |-> "extract_rc4"]
    /\ answer' = ExtractRc4(client.strings)
    /\ UNCHANGED <<mappings, client, all_types>>
    /\ OnlyExtract

\* parsed.extract_mappings()
ExtractMappings ==
    /\ client # NoClient
    /\ query.op \in {"none", "extract_rc4"}
    /\ LET m == ExtractMappingsOf(client)
       IN  /\ mappings' = m.value
           /\ query' = [op |-> "extract_mappings"]
           /\ answer' = [res |-> m.res]
    /\ UNCHANGED <<client, all_types>>
    /\ OnlyExtract

\* mappings.to_internal(id)
ToInternalCall(id) ==
    /\ mappings # NoMappings
    /\ query' = [op |-> "to_internal", arg |-> id]
    /\ answer' = [res |-> ToInternal(mappings, id)]
    /\ UNCHANGED <<mappings, client, all_types>>
    /\ OnlyExtract

\* mappings.to_game(packet_type)
ToGameCall(packet_type) ==
    /\ mappings # NoMappings
    /\ query' = [op |-> "to_game", arg |-> packet_type]
    /\ answer' = [res |-> ToGame(mappings, packet_type)]
    /\ UNCHANGED <<mappings, client, all_types>>
    /\ OnlyExtract

\* mappings.find_unmapped().collect::<Vec<_>>()
FindUnmappedCall ==
    /\ mappings # NoMappings
    /\ query' = [op |-> "find_unmapped"]
    /\ answer' = [res |-> FindUnmapped(mappings, all_types)]
    /\ UNCHANGED <<mappings, client, all_types>>
    /\ OnlyExtract

NextExtract ==
    \/ ExtractRc4Call
    \/ ExtractMappings
    \/ \E id \in {5, 9, 0} : ToInternalCall(id)
    \/ \E packet_type \in {"Ping", "NewTick", "Pic"} : ToGameCall(packet_type)
    \/ FindUnmappedCall

SpecExtract == InitExtract /\ [][NextExtract]_vars

----------------------------------------------------------------------------
(* A caller that uses one Adapter on its own, as the tests of rle.rs and   *)
(* primitives.rs do: put_be of a value onto a Vec, get_be on the bytes     *)
(* written, and get_be on bytes from elsewhere.                            *)

\* a value of a type
Of(adapter, value) == [adapter |-> adapter, value |-> value, from |-> "value"]

\* a type to decode bytes as
FromBytesAs(adapter) == [adapter |-> adapter, value |-> <<>>, from |-> "bytes"]

\* "abc".repeat(n / 3) and the like: n bytes of text
Text(n) == [k \in 1..n |-> 97 + ((k - 1) % 3)]

\* (0..n).collect::<Vec<_>>()
Range(n) == [k \in 1..n |-> k - 1]

TestSubjects ==
    << Of(U8, 200), Of(U16, 513), Of(U32, 16909060), Of(I32, -2), Of(I16, -2),
       Of(F32, 1065353216), Of(Bool, TRUE), Of(Bool, FALSE),
       Of(RleVec(U8, U16), <<1, 2, 3, 4, 5>>),
       Of(RleVec(U16, U8), Range(300)),
       Of(RleVec(U16, U16), Range(300)),
       Of(RleVec(U16, U32), Range(300)),
       Of(RleVec(U8, U8), <<>>),
       Of(RleVec(U8, U8), Range(255)),
       Of(RleVec(U8, U8), Range(256)),
       Of(RleVec(U16, I8), Range(127)),
       Of(RleVec(U16, I8), Range(128)),
       Of(RleVec(Bool, U16), <<TRUE, FALSE>>),
       Of(RleVec(RleString(U16), U16), << <<97>>, <<>>, <<98, 99>> >>),
       Of(RleVec(RleString(U8), U8), << <<97>>, Text(256), <<98, 99>> >>),
       Of(RleVec(GroundTileData, U16), << <<1, 2, 3>>, <<4, 5, 6>> >>),
       Of(RleString(U16), <<104, 101, 108, 108, 111, 32, 119, 111, 114, 108, 100>>),
       Of(RleString(U8), Text(300)),
       Of(RleString(U16), Text(300)),
       Of(RleString(U32), Text(300)),
       Of(RleString(U8), <<>>),
       Of(RleString(U8), Text(255)),
       Of(RleString(U8), Text(256)),
       Of(RleString(I8), Text(127)),
       Of(RleString(I8), Text(128)),
       Of(RleString(U16), Text(65535)),
       Of(RleString(U16), Text(65536)),
       Of(OptionOf(U8), <<>>), Of(OptionOf(U8), <<5>>),
       Of(OptionOf(F32), <<>>), Of(OptionOf(F32), <<1065353216>>),
       Of(OptionOf(RleString(U16)), <<>>), Of(OptionOf(RleString(U16)), << <<>> >>),
       Of(AdapterOf("EnemyShoot"), EnemyShootWith(<<>>, <<>>).data),
       Of(AdapterOf("EnemyShoot"), EnemyShootWith(<<5>>, <<>>).data),
       Of(AdapterOf("EnemyShoot"), EnemyShootWith(<<5>>, <<1065353216>>).data),
       Of(AdapterOf("EnemyShoot"), EnemyShootWith(<<>>, <<1065353216>>).data),
       Of(AdapterOf("EnemyShoot"), EnemyShootWith(<<>>, <<0>>).data),
       Of(StatDataT, StatInteger(1, 5)),
       Of(StatDataT, StatInteger(0, 0)),
       Of(StatDataT, StatInteger(1, -1)),
       Of(StatDataT, StatInteger(1, 520093696)),
       Of(StatDataT, StatInteger(99, 7)),
       Of(StatDataT, StatString(31, <<97>>)),
       Of(StatDataT, StatString(31, <<>>)),
       Of(StatDataT, StatString(62, Text(31))),
       Of(StatDataT, StatString(1, <<97>>)),
       Of(StatDataT, StatInteger(31, 5)),
       Of(ObjectStatusData, StatusWith(<<>>)),
       Of(ObjectStatusData, StatusWith(<< StatInteger(1, 5) >>)),
       Of(ObjectStatusData, StatusWith(<< StatString(31, <<97>>), StatInteger(4, 7) >>)),
       Of(RleVec(StatDataT, U16), << StatInteger(1, 5) >>),
       Of(PicT, <<0, 0, <<>> >>),
       Of(PicT, <<1, 1, <<1, 2, 3, 4>> >>),
       Of(PicT, <<2, 3, Range(24)>>),
       Of(PicT, <<0, 7, <<>> >>),
       Of(PicT, <<1, 1, <<1, 2>> >>),
       Of(PicT, <<1, 1, <<1, 2, 3, 4, 5>> >>),
       Of(PicT, <<0, 0, <<1>> >>) >>

\* the types decoded from bytes that no put_be wrote
TestAdapters ==
    { U8, U16, U32, I8, I16, I32, F32, Bool, RleVec(U16, U8), RleVec(U8, I8),
      RleString(U16), OptionOf(U16), GroundTileData, StatDataT, PicT }

\* what the buffer may hold
TestCursors ==
    { <<>>, <<1>>, <<255>>, <<0, 2>>, <<2, 0>>, <<1, 2, 3>>, <<2, 3, 4, 5>>,
      <<127, 255, 255, 255>>, <<0, 0, 0, 5, 9>>, <<3, 0, 1, 0, 2, 0>>,
      <<0, 2, 104, 105, 33>>, <<0, 1, 255>>, <<31, 0, 1, 97, 7>>, <<1, 0, 0, 0, 5>>,
      <<23, 0, 0, 0, 5>>, <<0, 0, 0, 1, 0, 0, 0, 1, 1, 2, 3, 4, 5>>,
      <<0, 0, 0, 1, 0, 0, 0, 2, 1, 2, 3, 4, 5>>, <<0, 0, 0, 0, 0, 0, 0, 9>> }

\* what the Vec may hold before put_be
TestSinks == {<<>>, <<9, 9>>}

InitAdapter ==
    /\ NoRc4Test
    /\ NoListener
    /\ NoPacketTest
    /\ NoWide
    /\ NoExtract
    /\ NoParse
    /\ mappings = NoMappings
    /\ codec = [s \in Side |-> NoCodec]
    /\ out = [d \in Dir |-> <<>>]
    /\ src = [d \in Dir |-> <<>>]
    /\ sent = [d \in Dir |-> <<>>]
    /\ rcvd = [d \in Dir |-> <<>>]
    /\ ret = NoCall
    /\ \/ /\ \E k \in 1..Len(TestSubjects) : subject = TestSubjects[k]
          /\ sink \in TestSinks
          /\ cursor = <<>>
       \/ /\ \E adapter \in TestAdapters : subject = FromBytesAs(adapter)
          /\ sink = <<>>
          /\ cursor \in TestCursors
    /\ put = NoPut
    /\ get = NoGet

OnlyAdapter ==
    UNCHANGED <<rc4Vars, codecVars, listenerVars, packetVars, wideVars, mapVars, avmVars>>

\* value.put_be(&mut buf): what it wrote is at the end of the Vec
PutValue ==
    /\ subject.from = "value"
    /\ put = NoPut
    /\ put' = PutBe(subject.adapter, subject.value)
    /\ sink' = sink \o put'.bytes
    /\ UNCHANGED <<subject, cursor, get>>
    /\ OnlyAdapter

\* T::get_be(&mut Cursor::new(&buf)) on the bytes that put_be wrote
GetWritten ==
    /\ put.res = "Ok"
    /\ get = NoGet
    /\ cursor' = put.bytes
    /\ get' = GetBe(subject.adapter, put.bytes)
    /\ UNCHANGED <<subject, sink, put>>
    /\ OnlyAdapter

\* T::get_be(&mut Cursor::new(&bytes)) on bytes from elsewhere
GetCursor ==
    /\ subject.from = "bytes"
    /\ get = NoGet
    /\ get' = GetBe(subject.adapter, cursor)
    /\ UNCHANGED <<subject, sink, put, cursor>>
    /\ OnlyAdapter

NextAdapter ==
    \/ PutValue
    \/ GetWritten
    \/ GetCursor

SpecAdapter == InitAdapter /\ [][NextAdapter]_vars

----------------------------------------------------------------------------
(* avm2/primitives.rs: the variable-length integer of the bytecode.  A u32 *)
(* is a size of which four bytes are used.                                 *)

\* input.bytes().iter().take(4).take_while(|&b| (b & 0x80) == 0x80).count(),
\* counted from byte k on
RECURSIVE Leading(_, _)
Leading(buf, k) ==
    IF k > 4 \/ k > Len(buf) \/ buf[k] < 128 THEN 0 ELSE 1 + Leading(buf, k + 1)

\* mutant of Septet: the high bit is not masked off
Septet_Unmasked(b, i) == WrapTo(WideMul(Wide(b), Wide(2 ^ (i * 7))), 4)

\* (b as u32 & 0x7f) << (i * 7): a u32 shift drops what leaves the 32 bits
Septet(b, i) == WrapTo(WideMul(Wide(b % 128), Wide(2 ^ (i * 7))), 4)

\* Iterator::sum on u32 of the terms of bytes k..length, added to acc:
\* an overflow panics with overflow checks and wraps without
RECURSIVE SumFrom(_, _, _, _, _)
SumFrom(buf, k, length, acc, bld) ==
    IF k > length THEN [panic |-> FALSE, v |-> acc]
    ELSE LET s == WideAdd(acc, Septet(buf[k], k - 1))
         IN  IF FitsIn(s, 4) THEN SumFrom(buf, k + 1, length, s, bld)
             ELSE IF bld = "debug" THEN [panic |-> TRUE, v |-> acc]
             ELSE SumFrom(buf, k + 1, length, WrapTo(s, 4), bld)

\* <u32 as Parse>::parse_avm2: the result and what is left in the cursor
ParseU32(buf, bld) ==
    LET length == 1 + Leading(buf, 1)
    IN  IF Len(buf) < length
        THEN [res |-> "InsufficientBytes", remaining |-> Len(buf), needed |-> length,
              rest |-> buf]
        ELSE LET value == SumFrom(buf, 1, length, Wide(0), bld)
             IN  IF value.panic THEN [res |-> "panic"]
                 ELSE [res |-> "Ok", value |-> value.v,
                       rest |-> SubSeq(buf, length + 1, Len(buf))]

\* Buf::take(limit).collect::<Vec<u8>>(): Take::remaining is the smaller of
\* the limit and what the cursor holds, and collect copies that many bytes
TakeCollect(buf, limit) ==
    IF WideLe(Wide(Len(buf)), limit) THEN [data |-> buf, rest |-> <<>>]
    ELSE LET n == CHOOSE k \in 0..Len(buf) : Wide(k) = limit
         IN  [data |-> SubSeq(buf, 1, n), rest |-> SubSeq(buf, n + 1, Len(buf))]

\* <String as Parse>::parse_avm2: the result and what is left in the cursor
ParseString(buf, bld) ==
    LET length == ParseU32(buf, bld)
    IN  IF length.res # "Ok" THEN length
        ELSE LET got == TakeCollect(length.rest, length.value)
             IN  IF IsUtf8(got.data, 1) THEN [res |-> "Ok", value |-> got.data, rest |-> got.rest]
                 ELSE [res |-> "Other", rest |-> got.rest]

\* what the cursor may hold: the cases of test_u32_parsing, every one or
\* two bytes of some, and up to MaxSeptets + 1 bytes of the extremes
MaxSeptets == 5
AvmInputs ==
    LET some == {0, 1, 5, 20, 76, 127, 128, 129, 159, 244, 255}
        edge == {1, 127, 128, 255}
    IN  UNION {[1..n -> some] : n \in 0..2}
            \cup UNION {[1..n -> edge] : n \in 3..(MaxSeptets + 1)}

InitAvm ==
    /\ NoRc4Test
    /\ NoListener
    /\ NoPacketTest
    /\ NoExtract
    /\ NoAdapterTest
    /\ mappings = NoMappings
    /\ codec = [s \in Side |-> NoCodec]
    /\ out = [d \in Dir |-> <<>>]
    /\ src = [d \in Dir |-> <<>>]
    /\ sent = [d \in Dir |-> <<>>]
    /\ rcvd = [d \in Dir |-> <<>>]
    /\ ret = NoCall
    /\ word = 0
    /\ build \in {"debug", "release"}
    /\ wargs = NoArgs
    /\ wres = NoRes
    /\ input \in AvmInputs
    /\ parsed = NoRes
    /\ text = NoRes

OnlyAvm ==
    UNCHANGED <<rc4Vars, codecVars, listenerVars, packetVars, wideVars, mapVars, adapterVars>>

\* u32::parse_avm2(&mut buffer)
ParseU32Call ==
    /\ input \in AvmInputs
    /\ build # "none"
    /\ parsed = NoRes
    /\ parsed' = ParseU32(input, build)
    /\ UNCHANGED <<input, text>>
    /\ OnlyAvm

\* String::parse_avm2(&mut buffer)
ParseStringCall ==
    /\ input \in AvmInputs
    /\ build # "none"
    /\ text = NoRes
    /\ text' = ParseString(input, build)
    /\ UNCHANGED <<input, parsed>>
    /\ OnlyAvm

NextAvm ==
    \/ ParseU32Call
    \/ ParseStringCall

SpecAvm == InitAvm /\ [][NextAvm]_vars

----------------------------------------------------------------------------
(* C9: for every key k with 1 <= |k| <= 256 and every byte sequence x,     *)
(* processing x with a fresh Rc4::new(k) and processing the result with    *)
(* another fresh Rc4::new(k) gives x back.                                 *)
C9_Involution ==
    (Len(rc4_passes) = 2 /\ rc4_passes[1] = 0 /\ rc4_passes[2] = 0)
        => rc4_buf = rc4_orig

C9_Witness ==
    /\ Len(rc4_passes) = 2 /\ rc4_passes[1] = 0 /\ rc4_passes[2] = 0
    /\ Len(rc4_orig) = 14
    /\ Len(rc4_key) = 256
    /\ rc4_buf = rc4_orig

(* C10: Rc4::new followed by process gives the published vectors of the    *)
(* reference cipher: "Key"/"Plaintext", "Wiki"/"pedia" and                 *)
(* "Secret"/"Attack at dawn".                                              *)
FirstPass == Len(rc4_passes) = 1 /\ rc4_passes[1] = 0

C10_Vectors ==
    /\ (/\ FirstPass
        /\ rc4_key = AsBytes(<<"K", "e", "y">>)
        /\ rc4_orig = AsBytes(<<"P", "l", "a", "i", "n", "t", "e", "x", "t">>))
       => rc4_buf = <<187, 243, 22, 232, 217, 64, 175, 10, 211>>
    /\ (/\ FirstPass
        /\ rc4_key = AsBytes(<<"W", "i", "k", "i">>)
        /\ rc4_orig = AsBytes(<<"p", "e", "d", "i", "a">>))
       => rc4_buf = <<16, 33, 191, 4, 32>>
    /\ (/\ FirstPass
        /\ rc4_key = AsBytes(<<"S", "e", "c", "r", "e", "t">>)
        /\ rc4_orig = AsBytes(<<"A", "t", "t", "a", "c", "k", " ", "a", "t", " ", "d", "a", "w", "n">>))
       => rc4_buf = <<69, 160, 31, 100, 95, 195, 91, 56, 53, 82, 84, 75, 155, 245>>

C10_Witness ==
    /\ FirstPass
    /\ rc4_key = AsBytes(<<"S", "e", "c", "r", "e", "t">>)
    /\ rc4_orig = AsBytes(<<"A", "t", "t", "a", "c", "k", " ", "a", "t", " ", "d", "a", "w", "n">>)
    /\ rc4_buf = <<69, 160, 31, 100, 95, 195, 91, 56, 53, 82, 84, 75, 155, 245>>

(* C30: the state table of an Rc4 is a permutation of 0..255 right after   *)
(* Rc4::new and after any number of process calls on inputs of any length, *)
(* and i and j stay in 0..255; Rc4::new builds no state from an empty key  *)
(* or from a key of more than 256 bytes.                                   *)
C30_Permutation ==
    /\ KeyAsserts(rc4_key) =>
          /\ rc4.i \in Byte
          /\ rc4.j \in Byte
          /\ DOMAIN rc4.state = 0..255
          /\ {rc4.state[k] : k \in 0..255} = 0..255
          /\ rc4.i = rc4_used % 256
    /\ (rc4_key # <<>> /\ ~KeyAsserts(rc4_key)) => (rc4 = NoRc4 /\ rc4_calls = 0)
    /\ Len(rc4_key) \in 1..256 <=> (rc4_key # <<>> /\ rc4 # NoRc4)

C30_Witness ==
    /\ Len(rc4_key) = 256
    /\ rc4_calls = 3
    /\ rc4_used = 300
    /\ rc4.i = 44
    /\ {rc4.state[k] : k \in 0..255} = 0..255
    /\ rc4.state # Rc4New(rc4_key).state

----------------------------------------------------------------------------
(* Claims on the codec *)

\* s is an initial part of t
IsPrefix(s, t) == Len(s) <= Len(t) /\ s = SubSeq(t, 1, Len(s))

(* C1: the RawPackets given in order to the encoder of one side are the    *)
(* RawPackets the decoder of the other side yields, in that order and byte *)
(* for byte (wire id and payload), in both directions; the decoder never   *)
(* fails on an encoder's output.                                           *)
C1_RoundTrip ==
    /\ \A d \in Dir :
         /\ IsPrefix(rcvd[d], sent[d])
         /\ (out[d] = <<>> /\ src[d] = <<>>) => rcvd[d] = sent[d]
    /\ ret.op = "decode" => ret.res # "Err"

C1_Witness ==
    /\ sent["s2c"] = <<FrameOf(7, <<88>>).bytes, FrameOf(255, <<0, 255, 16>>).bytes>>
    /\ rcvd["s2c"] = sent["s2c"]
    /\ ret.op = "decode" /\ ret.side = "client" /\ ret.res = "Some"

\* the next n keystream bytes of a cipher
RECURSIVE KeyStream(_, _)
KeyStream(c, n) ==
    IF n = 0 THEN <<>>
    ELSE LET x == Rc4Next(c) IN <<x.out>> \o KeyStream(x.rc4, n - 1)

\* the buffer of direction d begins with a length field of at least 5 and
\* holds that many bytes
FrameReady(d) ==
    /\ Len(src[d]) >= 4
    /\ ~U32Lt(GetU32Be(src[d]), ToBeBytes32(5))
    /\ ~U32Lt(ToBeBytes32(Len(src[d])), GetU32Be(src[d]))

(* C2: a decode call on a buffer that begins with a length field L >= 5    *)
(* and holds at least L bytes yields one RawPacket of the first L bytes,   *)
(* takes exactly those L bytes off the buffer, leaves the 5 header bytes   *)
(* as they came and XORs each payload byte with the next keystream byte of *)
(* the receive cipher.                                                     *)
C2_DecodeFrame ==
    [][\A side \in Side :
         LET d == Inbound(side)
             b == src[d]
             L == U32ToNat(GetU32Be(b))
             ks == KeyStream(codec[side].recv_rc4, L - 5)
         IN  (ret'.op = "decode" /\ ret'.side = side /\ FrameReady(d))
             => /\ ret'.res = "Some"
                /\ ret'.item = SubSeq(b, 1, 5) \o
                                 [k \in 1..(L - 5) |-> ByteXor(b[5 + k], ks[k])]
                /\ PacketId(RawPacketNew(ret'.item)) = b[5]
                /\ src'[d] = SubSeq(b, L + 1, Len(b))
                /\ rcvd'[d] = Append(rcvd[d], ret'.item)
      ]_vars

C2_Witness ==
    /\ ret.op = "decode" /\ ret.res = "Some"
    /\ Len(ret.item) = 6 /\ ret.item[5] = 42 /\ ret.item[6] # 88
    /\ src["c2s"] = <<0, 0, 0, 5, 7, 0>>

\* the buffer of direction d begins with a length field below 5
BadLength(d) ==
    /\ Len(src[d]) >= 4
    /\ U32Lt(GetU32Be(src[d]), ToBeBytes32(5))

(* C3: with at least 4 bytes buffered and a length field below 5, decode   *)
(* fails with InvalidSize(that length), takes no byte and leaves the       *)
(* receive cipher as it was; it fails only then; and from then on the      *)
(* connection yields no RawPacket, whatever arrives.                       *)
C3_InvalidSizeFatal ==
    [][\A side \in Side :
         LET d == Inbound(side)
         IN  /\ (ret'.op = "decode" /\ ret'.side = side /\ BadLength(d))
                => /\ ret'.res = "Err"
                   /\ ret'.err = U32ToNat(GetU32Be(src[d]))
                   /\ src' = src
                   /\ codec' = codec
             /\ (ret'.op = "decode" /\ ret'.side = side /\ ret'.res = "Err")
                => BadLength(d)
             /\ BadLength(d) => (BadLength(d)' /\ rcvd'[d] = rcvd[d])
      ]_vars

C3_Witness ==
    /\ ret.op = "decode" /\ ret.res = "Err" /\ ret.err = 0
    /\ Len(rcvd["c2s"]) = 1
    /\ src["c2s"] = <<0, 0, 0, 0>> \o <<0, 0, 0, 6, 42, 88>>

\* the two halves of the key material
FirstHalf == [k \in 1..13 |-> mappings.binary_rc4[k]]
SecondHalf == [k \in 1..13 |-> mappings.binary_rc4[13 + k]]

\* side has encoded nothing and decoded nothing yet
Untouched(side) == sent[Outbound(side)] = <<>> /\ rcvd[Inbound(side)] = <<>>

(* C6: bytes 0..13 of the 26-byte key make the server's receive cipher and *)
(* the client's send cipher, bytes 13..26 the server's send cipher and the *)
(* client's receive cipher; so each side's send cipher starts in the state *)
(* of the other side's receive cipher.                                     *)
C6_KeyHalves ==
    /\ Len(mappings.binary_rc4) = 26
    /\ ret.op = "new_as_server"
         => /\ codec["server"].recv_rc4 = Rc4New(FirstHalf)
            /\ codec["server"].send_rc4 = Rc4New(SecondHalf)
    /\ ret.op = "new_as_client"
         => /\ codec["client"].send_rc4 = Rc4New(FirstHalf)
            /\ codec["client"].recv_rc4 = Rc4New(SecondHalf)
    /\ (/\ codec["server"] # NoCodec /\ Untouched("server")
        /\ codec["client"] # NoCodec /\ Untouched("client"))
         => /\ codec["server"].send_rc4 = codec["client"].recv_rc4
            /\ codec["client"].send_rc4 = codec["server"].recv_rc4

C6_Witness ==
    /\ ret.op = "new_as_client"
    /\ codec["server"] # NoCodec /\ Untouched("server") /\ Untouched("client")
    /\ codec["server"].send_rc4 = codec["client"].recv_rc4
    /\ codec["server"].send_rc4 # codec["server"].recv_rc4

----------------------------------------------------------------------------
(* Claims on the listener *)

InYielded(p) == \E k \in 1..Len(yielded) : yielded[k] = p

\* the first 23 bytes that arrived from p are the policy request
RequestSeen(p) ==
    /\ Len(Arrived(p)) >= Len(POLICY_REQUEST)
    /\ SubSeq(Arrived(p), 1, Len(POLICY_REQUEST)) = POLICY_REQUEST

Answered(p) ==
    /\ det[p].pc = "none"
    /\ shut[p]
    /\ written[p] = Len(POLICY_FILE)
    /\ ~InYielded(p)

PolicySafe ==
    \A p \in Peers :
        /\ written[p] > 0 => RequestSeen(p) /\ det[p].bytes = POLICY_REQUEST
        /\ written[p] <= Len(POLICY_FILE)
        /\ shut[p] => written[p] = Len(POLICY_FILE)
        /\ det[p].pc = "none" => shut[p]
        /\ RequestSeen(p) => ~InYielded(p)

(* C4: nothing is written to an accepted stream unless the 23 bytes peeked *)
(* are the policy request; the stream is shut down only when all of        *)
(* POLICY_FILE is written; a peer whose first 23 bytes are the request is  *)
(* never yielded; and once the detector holds such a stream it writes the  *)
(* whole file, shuts the stream down and ends with "no connection".        *)
C4_PolicyAnswer ==
    /\ []PolicySafe
    /\ \A p \in Peers : (handling = p /\ RequestSeen(p)) ~> Answered(p)

C4_Witness ==
    \E p \in Peers :
        /\ Answered(p)
        /\ Len(peer[p].script) = 2
        /\ \E q \in Peers : InYielded(q)

(* C5: when the bytes peeked are no prefix of the request the detection    *)
(* ends with the stream yielded as a connection, nothing written, no       *)
(* shutdown; and no byte is ever taken off a socket by the detection: what *)
(* the codec has read plus what the socket still holds is everything the   *)
(* peer sent, from its first byte, the peeked bytes included.              *)
C5_HandOver ==
    \A p \in Peers :
        /\ ~StartsWith(POLICY_REQUEST, det[p].bytes) => det[p].pc = "some" /\ InYielded(p)
        /\ InYielded(p) <=> det[p].pc = "some"
        /\ InYielded(p) => written[p] = 0 /\ ~shut[p] /\ StartsWith(Arrived(p), det[p].bytes)
        /\ inbuf[p] \o recvq[p] = Arrived(p)
        /\ inbuf[p] # <<>> => InYielded(p)

C5_Witness ==
    \E p \in Peers :
        /\ InYielded(p)
        /\ det[p].bytes = SubSeq(POLICY_REQUEST, 1, 22) \o <<88>>
        /\ inbuf[p] = Arrived(p)
        /\ Len(inbuf[p]) = 27

----------------------------------------------------------------------------
(* Claims on packets and adapters *)

\* the mappings hold a wire id for the packet's kind
Mapped == ToGame(mappings, pkt.type) # <<>>

(* C7: for a Packet whose kind the mappings map to a wire id, from_packet  *)
(* succeeds, and to_packet on its result succeeds with a Packet equal to   *)
(* the one given.                                                          *)
C7_PacketRoundTrip ==
    (Mapped /\ raw # NoRaw) =>
        /\ raw.res = "Ok"
        /\ back # NoBack => back.res = "Ok" /\ back.packet = pkt

\* the string and sequence lengths of v fit the prefix widths of its type
RECURSIVE LengthsFit(_, _)
LengthsFit(ty, v) ==
    CASE ty.t = "rle_string" -> FitsPrefix(Len(v), ty.s)
      [] ty.t = "rle_vec" ->
            FitsPrefix(Len(v), ty.s) /\ \A k \in 1..Len(v) : LengthsFit(ty.elem, v[k])
      [] ty.t = "option" -> \A k \in 1..Len(v) : LengthsFit(ty.elem, v[k])
      [] ty.t = "struct" -> \A k \in 1..Len(v) : LengthsFit(ty.fields[k], v[k])
      [] ty.t = "stat" -> Len(v.str) < 65536
      [] OTHER -> TRUE

\* the encodings of the fields from field k on, one after the other
RECURSIVE FieldBytes(_, _, _)
FieldBytes(tys, vals, k) ==
    IF k > Len(tys) THEN <<>>
    ELSE PutBe(tys[k], vals[k]).bytes \o FieldBytes(tys, vals, k + 1)

(* C8: for a packet kind with a derived adapter and a value whose string   *)
(* and sequence lengths fit their prefixes, put_be succeeds and writes the *)
(* encodings of the fields in declared order, and get_be on those bytes    *)
(* gives an equal value and leaves no byte.                                *)
C8_DerivedRoundTrip ==
    (pkt.type # "Pic" /\ encoded # NoPut /\ LengthsFit(AdapterOf(pkt.type), pkt.data)) =>
        /\ encoded.res = "Ok"
        /\ encoded.bytes = FieldBytes(PacketFields(pkt.type), pkt.data, 1)
        /\ decoded # NoGet =>
              decoded.res = "Ok" /\ decoded.value = pkt.data /\ decoded.rest = <<>>

(* C11: to_packet on a RawPacket whose wire id the mappings do not hold    *)
(* fails with UnmappedPacketType of that id and leaves the RawPacket       *)
(* readable; from_packet on a Packet whose kind they do not hold fails     *)
(* with UnmappedPacketType of that kind; every other failure of either is  *)
(* an AdapterError holding the adapter's error.                            *)
C11_ConversionErrors ==
    /\ conv # NoBack =>
          /\ rcv \in TestRaws
          /\ ToInternal(mappings, PacketId(rcv)) = <<>> =>
                conv.res = "UnmappedPacketType" /\ conv.unmapped = <<PacketId(rcv)>>
          /\ conv.res \in {"Ok", "UnmappedPacketType", "AdapterError"}
          /\ conv.res = "AdapterError" =>
                conv.err = FromBytes(ToInternal(mappings, PacketId(rcv))[1],
                                     RawContents(rcv)).err
    /\ raw # NoRaw =>
          /\ ~Mapped => raw.res = "UnmappedPacketType" /\ raw.unmapped = <<pkt.type>>
          /\ raw.res \in {"Ok", "UnmappedPacketType", "AdapterError"}
          /\ raw.res = "AdapterError" => raw.err = ToBytes(pkt).err

(* C12: every RawPacket, yielded by the decoder or built by from_packet,   *)
(* is at least 5 bytes long and starts with the big-endian encoding of its *)
(* own total length; from_packet puts the mapped wire id at byte 4 and the *)
(* serialized payload from byte 5 on.                                      *)
C12_LengthHeader ==
    /\ \A d \in Dir :
          \A k \in 1..Len(rcvd[d]) :
              /\ Len(rcvd[d][k]) >= 5
              /\ SubSeq(rcvd[d][k], 1, 4) = ToBeBytes32(Len(rcvd[d][k]))
    /\ raw.res = "Ok" =>
          /\ Len(raw.bytes) >= 5
          /\ SubSeq(raw.bytes, 1, 4) = ToBeBytes32(Len(raw.bytes))
          /\ raw.bytes[5] = ToGame(mappings, pkt.type)[1]
          /\ SubSeq(raw.bytes, 6, Len(raw.bytes)) = ToBytes(pkt).bytes
    /\ (wargs.op = "from_packet" /\ wres.res = "Ok") =>
          /\ WideLe(Wide(5), wres.len)
          /\ WideOfBe(wres.head) = wres.len
          /\ wres.id = ToGame(mappings, "File")[1]

----------------------------------------------------------------------------
(* Claims on the mappings *)

\* the pairs of m form a partial bijection, and the lookups agree with it
\* (on the ids of the pairs and some others: no other id has a kind)
Bijective(m) ==
    /\ \A p \in m.mappings : \A q \in m.mappings :
          (p[1] = q[1] \/ p[2] = q[2]) => p = q
    /\ \A id \in {p[1] : p \in m.mappings} \cup {0, 5, 9, 255} : \A k \in PacketTypes :
          ToInternal(m, id) = <<k>> <=> ToGame(m, k) = <<id>>

(* C13: in every Mappings, also one extracted from constant slots whose    *)
(* values collide, to_internal(id) = Some(k) iff to_game(k) = Some(id), no *)
(* wire id has two kinds and no kind two wire ids; once built, a Mappings  *)
(* never changes.                                                          *)
C13_Bijection ==
    /\ [](mappings # NoMappings => Bijective(mappings))
    /\ [][mappings # NoMappings => mappings' = mappings]_vars

C13_Witness ==
    /\ client.consts = <<SlotInt(PING, 5), SlotInt(NEW_TICK, 261)>>
    /\ mappings.mappings = {<<5, "NewTick">>}
    /\ query = [op |-> "to_game", arg |-> "Ping"]
    /\ answer.res = <<>>

\* the kinds that are the image of no wire id in the table
NoImage(m) == {k \in PacketTypes : \A id \in 0..255 : ToInternal(m, id) # <<k>>}

(* C14: find_unmapped yields exactly the kinds of the full enumeration     *)
(* that are the image of no wire id in the table, each of them once and no *)
(* mapped kind.                                                            *)
C14_FindUnmapped ==
    query.op = "find_unmapped" =>
        /\ {answer.res[k] : k \in 1..Len(answer.res)} = NoImage(mappings)
        /\ \A i \in 1..Len(answer.res) : \A j \in 1..Len(answer.res) :
              answer.res[i] = answer.res[j] => i = j

C14_Witness ==
    /\ query.op = "find_unmapped"
    /\ mappings.mappings = {<<5, "NewTick">>, <<9, "Ping">>}
    /\ Len(answer.res) = 13
    /\ answer.res[1] = "Update"

----------------------------------------------------------------------------
(* Claims on single adapters *)

\* the type is a length-prefixed vector or string
IsRle(ty) == ty.t \in {"rle_vec", "rle_string"}

\* the largest value of a prefix type of 1 or 2 bytes
PrefixMax(S) == 2 ^ (8 * S.size - (IF S.signed THEN 1 ELSE 0)) - 1

\* len is more than the prefix type S can hold
Exceeds(len, S) == S.size < 4 /\ len > PrefixMax(S)

\* the elements are of a type that reads back what it wrote wherever it
\* stands: no Option, StatData or Pic inside
RECURSIVE SelfDelimiting(_)
SelfDelimiting(ty) ==
    CASE ty.t = "rle_vec" -> SelfDelimiting(ty.elem)
      [] ty.t = "struct" -> \A k \in 1..Len(ty.fields) : SelfDelimiting(ty.fields[k])
      [] ty.t \in {"option", "stat", "pic"} -> FALSE
      [] OTHER -> TRUE

\* the encodings of the elements lo..hi, in order
RECURSIVE ElementBytes(_, _, _, _)
ElementBytes(ty, items, lo, hi) ==
    IF lo > hi THEN <<>>
    ELSE IF lo = hi
    THEN (IF ty.t = "rle_string" THEN <<items[lo]>> ELSE PutBe(ty.elem, items[lo]).bytes)
    ELSE ElementBytes(ty, items, lo, (lo + hi) \div 2)
            \o ElementBytes(ty, items, (lo + hi) \div 2 + 1, hi)

\* put_be has returned for a length-prefixed vector or string
RlePut == IsRle(subject.adapter) /\ put # NoPut

(* C15: put_be of a length-prefixed vector or string whose length exceeds  *)
(* the largest value of its prefix type fails with InvalidData and appends *)
(* nothing to the sink; when the lengths fit, it writes the big-endian     *)
(* length and then the elements in order, and get_be on that returns the   *)
(* value that was encoded.                                                 *)
C15_LengthPrefix ==
    /\ [](RlePut =>
            IF Exceeds(Len(subject.value), subject.adapter.s)
            THEN put.res = "Err" /\ put.err.kind = "InvalidData" /\ put.bytes = <<>>
            ELSE (LengthsFit(subject.adapter, subject.value)
                    /\ SelfDelimiting(subject.adapter)) =>
                    /\ put.res = "Ok"
                    /\ put.bytes =
                          ToBeBytes(Len(subject.value), subject.adapter.s.size)
                             \o ElementBytes(subject.adapter, subject.value,
                                             1, Len(subject.value))
                    /\ get # NoGet =>
                          get.res = "Ok" /\ get.value = subject.value /\ get.rest = <<>>)
    /\ [][(RlePut' /\ ~RlePut /\ Exceeds(Len(subject.value), subject.adapter.s))
            => sink' = sink]_vars

C15_Witness ==
    /\ subject.adapter.t = "rle_vec"
    /\ subject.adapter = RleVec(U16, U8)
    /\ Len(subject.value) = 300
    /\ put.res = "Err"
    /\ put.err.kind = "InvalidData"
    /\ sink = <<9, 9>>

\* the bytes b read as one big-endian number, two's complement when signed
RECURSIVE Unsigned(_, _)
Unsigned(b, n) == IF n = 0 THEN 0 ELSE 256 * Unsigned(b, n - 1) + b[n]
BigEndian(b, signed) ==
    IF signed /\ b[1] >= 128
    THEN Unsigned([b EXCEPT ![1] = @ - 128], Len(b)) - 2 ^ (8 * Len(b) - 2) - 2 ^ (8 * Len(b) - 2)
    ELSE Unsigned(b, Len(b))

\* s is what is left of c after some bytes were read off its front
IsSuffix(s, c) == Len(s) <= Len(c) /\ s = SubSeq(c, Len(c) - Len(s) + 1, Len(c))

\* get_be has returned for bytes from elsewhere
Decoded == subject.from = "bytes" /\ get # NoGet

\* the width of a fixed-width primitive
Width(ty) == IF ty.t = "int" THEN ty.size ELSE 4

(* C16, as the code has it: get_be of a fixed-width primitive of width n   *)
(* fails exactly when fewer than n bytes remain, with InsufficientBytes    *)
(* needed = n and remaining = the bytes left, and has then consumed        *)
(* nothing; otherwise it consumes exactly n bytes and yields their         *)
(* big-endian value.  A get_be of any type that fails with                 *)
(* InsufficientBytes leaves the cursor where the failing part began:       *)
(* remaining is what is left there, the parts decoded before are consumed. *)
C16_PrimitiveRead ==
    Decoded =>
        /\ subject.adapter.t \in {"int", "f32"} =>
              LET n == Width(subject.adapter)
              IN  IF Len(cursor) < n
                  THEN /\ get.res = "Err"
                       /\ get.err = [kind |-> "InsufficientBytes",
                                     remaining |-> Len(cursor), needed |-> n]
                       /\ get.rest = cursor
                  ELSE /\ get.res = "Ok"
                       /\ get.rest = SubSeq(cursor, n + 1, Len(cursor))
                       /\ get.value = BigEndian(SubSeq(cursor, 1, n),
                                                subject.adapter.t = "int"
                                                   /\ subject.adapter.signed)
        /\ get.err.kind = "InsufficientBytes" =>
              /\ IsSuffix(get.rest, cursor)
              /\ get.err.remaining = Len(get.rest)
              /\ get.err.needed > get.err.remaining

C16_Witness ==
    /\ Decoded
    /\ subject.adapter.t = "int"
    /\ subject.adapter = U32
    /\ cursor = <<1, 2, 3>>
    /\ get.err = [kind |-> "InsufficientBytes", remaining |-> 3, needed |-> 4]
    /\ get.rest = cursor

(* C16, as stated: whenever get_be fails with InsufficientBytes, no byte   *)
(* has been consumed from the cursor.                                      *)
C16_NoPartialRead ==
    (Decoded /\ get.err.kind = "InsufficientBytes") => get.rest = cursor

\* the subject is an EnemyShoot packet's struct
IsEnemyShoot == subject.adapter.t = "struct" /\ subject.adapter = AdapterOf("EnemyShoot")

(* C17: Option<T> encodes None as no bytes and Some(v) as v's encoding,    *)
(* and decodes to None exactly when no bytes remain; for EnemyShoot, whose *)
(* last two fields are Option<u8> num_shots and Option<f32> angle_inc,     *)
(* get_be on what put_be wrote gives the value back, whichever of the two  *)
(* are present.                                                            *)
C17_OptionRoundTrip ==
    /\ (subject.adapter.t = "option" /\ put # NoPut) =>
          /\ put.res = "Ok"
          /\ put.bytes = IF subject.value = <<>> THEN <<>>
                         ELSE PutBe(subject.adapter.elem, subject.value[1]).bytes
    /\ (subject.adapter.t = "option" /\ get.res = "Ok") =>
          (get.value = <<>> <=> cursor = <<>>)
    /\ (subject.adapter.t = "option" /\ get # NoGet /\ cursor = <<>>) => get.res = "Ok"
    /\ (IsEnemyShoot /\ get # NoGet) =>
          get.res = "Ok" /\ get.value = subject.value /\ get.rest = <<>>

\* the subject is a StatData whose variant agrees with its type
WellTyped(v) == v.string <=> IsString(v.typ)

(* C18: put_be of a StatData writes the one-byte stat type and then a      *)
(* 16-bit-length-prefixed string for a string stat or a 32-bit big-endian  *)
(* integer for an integer stat, so that get_be on what put_be wrote gives  *)
(* every correctly typed StatData back.                                    *)
C18_StatWireForm ==
    (subject.adapter.t = "stat" /\ subject.from = "value" /\ WellTyped(subject.value)
        /\ put # NoPut) =>
        /\ put.res = "Ok"
        /\ put.bytes =
              <<subject.value.typ>>
                 \o (IF subject.value.string
                     THEN ToBeBytes(Len(subject.value.str), 2) \o subject.value.str
                     ELSE ToBeBytes(subject.value.int, 4))
        /\ get # NoGet => get.res = "Ok" /\ get.value = subject.value /\ get.rest = <<>>

\* 4 * w * h, whatever its size
BitmapLen(w, h) == WideMul(WideMul(WideOfBe(w), WideOfBe(h)), Wide(4))

(* C19: Pic::get_be succeeds only when at least 4*w*h bytes remain after   *)
(* the dimensions and then yields a bitmap of exactly 4*w*h bytes, and     *)
(* fails with InsufficientBytes otherwise, for all 32-bit w and h, also    *)
(* when 4*w*h exceeds the machine word; put_be writes exactly 8 + 4*w*h    *)
(* bytes.                                                                  *)
C19_PicWireForm ==
    /\ (wargs.op = "get_be" /\ wres # NoRes) =>
          /\ wres.res \in {"Ok", "InsufficientBytes"}
          /\ wres.res = "Ok" <=> WideLe(BitmapLen(wargs.w, wargs.h), wargs.remaining)
          /\ wres.res = "Ok" => wres.bitmap_len = BitmapLen(wargs.w, wargs.h)
    /\ (subject.adapter.t = "pic" /\ subject.from = "value" /\ put # NoPut) =>
          /\ put.res = "Ok"
          /\ Len(put.bytes) = 8 + 4 * subject.value[1] * subject.value[2]
    /\ (subject.adapter.t = "pic" /\ get.res = "Ok") =>
          /\ Len(get.value[3]) = 4 * get.value[1] * get.value[2]
          /\ Len(cursor) >= 8 + 4 * get.value[1] * get.value[2]

----------------------------------------------------------------------------
(* Claims on the bytecode parsers *)

\* 1 plus the number of leading bytes with the high bit set, at most 5
SequenceLength(buf) ==
    CHOOSE n \in 1..5 :
        /\ \A k \in 1..(n - 1) : k <= Len(buf) /\ buf[k] >= 128
        /\ n = 5 \/ n > Len(buf) \/ buf[n] < 128

\* the sum over the bytes k..n of (byte & 0x7F) << (7 * (k - 1)), in full
RECURSIVE Total(_, _, _)
Total(buf, k, n) ==
    IF k > n THEN Wide(0)
    ELSE WideAdd(WideMul(Wide(buf[k] % 128), Wide(2 ^ (7 * (k - 1)))), Total(buf, k + 1, n))

(* C20: the u30/u32 parser reads a sequence of 1 plus the number of        *)
(* leading bytes with the high bit set, at most 5, bytes; it returns the   *)
(* sum of (byte_k & 0x7F) << (7*k) reduced to its low 32 bits and consumes *)
(* exactly the sequence ([9F 14] gives 2591, [01] 1, [81 4C] 9729,         *)
(* [F4 05] 756, no byte left); with fewer bytes than the sequence length   *)
(* it fails with InsufficientBytes and consumes nothing.                   *)
C20_VarInt ==
    parsed # NoRes =>
        LET n == SequenceLength(input)
        IN  /\ IF Len(input) < n
               THEN parsed = [res |-> "InsufficientBytes", remaining |-> Len(input),
                              needed |-> n, rest |-> input]
               ELSE /\ parsed.res = "Ok"
                    /\ parsed.value = WrapTo(Total(input, 1, n), 4)
                    /\ parsed.rest = SubSeq(input, n + 1, Len(input))
            /\ input = <<159, 20>> => parsed.value = Wide(2591) /\ parsed.rest = <<>>
            /\ input = <<1>> => parsed.value = Wide(1) /\ parsed.rest = <<>>
            /\ input = <<129, 76>> => parsed.value = Wide(9729) /\ parsed.rest = <<>>
            /\ input = <<244, 5>> => parsed.value = Wide(756) /\ parsed.rest = <<>>

C20_Witness ==
    /\ input = <<255, 255, 255, 255, 255, 1>>
    /\ parsed.res = "Ok"
    /\ parsed.value = WideOfBe(<<255, 255, 255, 255>>)
    /\ parsed.rest = <<1>>

----------------------------------------------------------------------------
(* Claims on the extractor *)

\* the places of the literal "rc4" in a string table
Rc4At(strings) == {k \in 1..Len(strings) : strings[k] = <<114, 99, 52>>}

\* the n-th string after the first "rc4" of the table, if there is one
AfterRc4(strings, n) ==
    IF Rc4At(strings) = {} THEN <<>>
    ELSE LET first == CHOOSE k \in Rc4At(strings) : \A j \in Rc4At(strings) : k <= j
         IN  IF first + n <= Len(strings) THEN <<strings[first + n]>> ELSE <<>>

(* C21: extract_rc4 returns the string that follows the first "rc4" of     *)
(* the string table at once (the second string counted from the match),    *)
(* and fails with NoRC4Found when the table holds no "rc4" or ends with    *)
(* its first "rc4".                                                        *)
C21_ExtractRc4 ==
    query.op = "extract_rc4" =>
        IF AfterRc4(client.strings, 1) = <<>>
        THEN answer = [res |-> "NoRC4Found", value |-> <<>>]
        ELSE answer = [res |-> "Ok", value |-> AfterRc4(client.strings, 1)[1]]

C21_Witness ==
    /\ client.strings = <<<<>>, <<114, 99, 52>>, NEW_TICK, HexKey>>
    /\ query.op = "extract_rc4"
    /\ answer = [res |-> "Ok", value |-> NEW_TICK]

\* C21 as stated: the string returned is the second one after the first
\* "rc4", and without an "rc4" the call fails with NoRC4Found
C21_SecondAfter ==
    query.op = "extract_rc4" =>
        /\ Rc4At(client.strings) = {} => answer.res = "NoRC4Found"
        /\ AfterRc4(client.strings, 2) # <<>> =>
              answer = [res |-> "Ok", value |-> AfterRc4(client.strings, 2)[1]]

(* C22: the table that extract_packets returns holds, for every slot of    *)
(* GameServerConnection with an integer value whose name, lowercased and   *)
(* without '_', is the lowercased name of a packet kind, the pair of the   *)
(* value truncated to 8 bits and that kind, and no pair of a slot that is  *)
(* no integer or matches no kind; also when the values of two matching     *)
(* slots are equal modulo 256.                                             *)
C22_WireTable ==
    (query.op = "extract_mappings" /\ answer.res = "Ok") =>
        LET consts == client.consts
            Kinds(k) ==
                {kind \in PacketTypes :
                    /\ consts[k].int
                    /\ RemoveChar(ToLowercase(consts[k].name), 95) = ToLowercase(TypeName(kind))}
        IN  /\ \A k \in 1..Len(consts) : \A kind \in Kinds(k) :
                  <<consts[k].i % 256, kind>> \in mappings.mappings
            /\ \A p \in mappings.mappings : \E k \in 1..Len(consts) :
                  p[2] \in Kinds(k) /\ p[1] = consts[k].i % 256

----------------------------------------------------------------------------
(* Claims on the order of detections *)

\* the listener has done something to the stream of p, or with it
Touched(p) ==
    \/ det[p] # NoDetect
    \/ written[p] > 0
    \/ shut[p]
    \/ InYielded(p)
    \/ inbuf[p] # <<>>

(* C28: the listener detects on one accepted stream at a time: connections *)
(* are yielded in accept order, and as long as the detection on one stream *)
(* has not ended (the peer has sent nothing, or a proper prefix of the     *)
(* request) no stream accepted later is examined, answered or yielded.     *)
C28_OneAtATime ==
    /\ \A i \in 1..Len(yielded) : \A j \in 1..Len(yielded) : i < j => yielded[i] < yielded[j]
    /\ \A p \in Peers : det[p].pc \in {"peek", "write"} <=> handling = p
    /\ \A p \in Peers : handling = p => \A q \in Peers : q > p => ~Touched(q)
    /\ \A k \in 1..Len(incoming) : ~Touched(incoming[k]) /\ incoming[k] > handling

C28_Witness ==
    /\ handling = 1
    /\ det[1] = [pc |-> "peek", bytes |-> SubSeq(POLICY_REQUEST, 1, 5)]
    /\ peer[1].state = "closed"
    /\ recvq[2] = <<0, 0, 0, 5, 7>>
    /\ peer[2].state = "closed"
    /\ incoming = <<2>>

\* what has come from p is the beginning of a request and not all of it
ProperPrefix(p) == StartsWith(POLICY_REQUEST, Arrived(p)) /\ Arrived(p) # POLICY_REQUEST

\* the detection on the stream of p has ended
Completed(p) == det[p].pc \in {"write", "some", "none"}

(* C29: a detection ends, either way, only in a step in which the bytes    *)
(* peeked are the whole request or no prefix of it; when a peer sends a    *)
(* proper prefix of the request, or nothing, and then no more or closes,   *)
(* every peek returns that prefix again and the detection never ends:      *)
(* nothing is written, the stream is not yielded and no error is           *)
(* reported.                                                               *)
C29_PrefixNeverEnds ==
    /\ [][\A p \in Peers :
            (~Completed(p) /\ Completed(p)') =>
                /\ det[p].pc = "peek"
                /\ det'[p].bytes = PeekMax(recvq[p], Len(POLICY_REQUEST)).bytes
                /\ \/ det'[p].bytes = POLICY_REQUEST
                   \/ ~StartsWith(POLICY_REQUEST, det'[p].bytes)
      ]_vars
    /\ [](\A p \in Peers :
            ProperPrefix(p) =>
                /\ ~Completed(p)
                /\ written[p] = 0 /\ ~shut[p] /\ ~InYielded(p)
                /\ det[p].pc = "peek" => det[p].bytes \in {<<>>, Arrived(p)})
    /\ \A p \in Peers :
          [](((handling = p /\ ProperPrefix(p) /\ peer[p].sent = Len(peer[p].script))
             => [](handling = p /\ ~Completed(p))))

C29_Witness ==
    /\ handling = 1
    /\ peer[1] = [state |-> "closed", script |-> <<>>, sent |-> 0]
    /\ det[1] = [pc |-> "peek", bytes |-> <<>>]
    /\ peer[2].state = "closed" /\ peer[2].script = <<POLICY_REQUEST>> /\ peer[2].sent = 1
    /\ ~Touched(2)

----------------------------------------------------------------------------
(* Claims on the stream of frames *)

\* a cipher after n more keystream bytes
RECURSIVE Advance(_, _)
Advance(c, n) == IF n = 0 THEN c ELSE Advance(Rc4Next(c).rc4, n - 1)

\* the length field that a stream begins with, 0 when there is none below 2^31
HeadLength(s) == IF Len(s) < 4 \/ s[1] >= 128 THEN 0 ELSE U32ToNat(SubSeq(s, 1, 4))

\* the stream is a run of whole frames, each with a length field of its size
RECURSIVE WellFormed(_)
WellFormed(s) ==
    \/ s = <<>>
    \/ /\ HeadLength(s) >= 5
       /\ HeadLength(s) <= Len(s)
       /\ WellFormed(SubSeq(s, HeadLength(s) + 1, Len(s)))

\* the RawPackets of a well-formed stream in wire order, for a receive
\* cipher c: the header as it is, the payload XORed with the keystream
RECURSIVE PlainFrames(_, _)
PlainFrames(s, c) ==
    IF s = <<>> THEN <<>>
    ELSE LET L == HeadLength(s)
             ks == KeyStream(c, L - 5)
         IN  <<SubSeq(s, 1, 5) \o [k \in 1..(L - 5) |-> ByteXor(s[5 + k], ks[k])]>>
                 \o PlainFrames(SubSeq(s, L + 1, Len(s)), Advance(c, L - 5))

\* the bytes of the inbound stream that the listener's decoder has taken
Taken == Concat(rcvd["c2s"], Len(rcvd["c2s"]))

(* C23: on a stream of well-formed frames, however it is split into        *)
(* chunks, the RawPackets that the decode calls have yielded are the first *)
(* frames of the stream in wire order, all of them once all bytes have     *)
(* come and decode yields no more; a decode call on fewer than 4 bytes, or *)
(* on fewer bytes than the length field says, yields nothing and leaves    *)
(* the buffer and the receive cipher as they were.                         *)
C23_ChunkIndependent ==
    /\ [](\A s \in PeerStreams :
            LET left == src["c2s"] \o out["c2s"]
                all == PlainFrames(s, NewAsServer(mappings).recv_rc4)
            IN  (WellFormed(s) /\ IsSuffix(left, s) /\ Len(Taken) + Len(left) = Len(s))
                => /\ IsPrefix(rcvd["c2s"], all)
                   /\ (out["c2s"] = <<>> /\ ret.op = "decode" /\ ret.res = "None")
                         => rcvd["c2s"] = all)
    /\ [][LET b == src["c2s"]
          IN  (ret'.op = "decode" /\ (Len(b) < 4 \/ (HeadLength(b) >= 5 /\ Len(b) < HeadLength(b))))
              => /\ ret'.res = "None"
                 /\ src' = src
                 /\ codec' = codec
                 /\ rcvd' = rcvd
      ]_vars

C23_Witness ==
    /\ Len(rcvd["c2s"]) = 3
    /\ rcvd["c2s"] = PlainFrames(<<0, 0, 0, 6, 42, 88, 0, 0, 0, 5, 7, 0, 0, 0, 7, 9, 1, 2>>,
                                 NewAsServer(mappings).recv_rc4)
    /\ ret.op = "decode" /\ ret.res = "None"
    /\ src["c2s"] = <<>> /\ out["c2s"] = <<>>

\* the keystream bytes off + 1 .. off + n of a cipher
KeyStreamAt(c, off, n) == SubSeq(KeyStream(c, off + n), off + 1, off + n)

\* the payload bytes of the first k frames of a list
RECURSIVE PayloadBytes(_, _)
PayloadBytes(frames, k) ==
    IF k = 0 THEN 0 ELSE PayloadBytes(frames, k - 1) + (Len(frames[k]) - 5)

\* frame f with its payload XORed with the keystream of c from off on
Crypt(f, c, off) ==
    LET ks == KeyStreamAt(c, off, Len(f) - 5)
    IN  SubSeq(f, 1, 5) \o [h \in 1..(Len(f) - 5) |-> ByteXor(f[5 + h], ks[h])]

\* the wire form of the frames k.. of a list under a cipher in its first state
RECURSIVE WireFrom(_, _, _)
WireFrom(frames, k, c) ==
    IF k > Len(frames) THEN <<>>
    ELSE Crypt(frames[k], c, PayloadBytes(frames, k - 1)) \o WireFrom(frames, k + 1, c)

\* the side that writes direction d, and the one that reads it
Writer(d) == CHOOSE side \in Side : Outbound(side) = d
Reader(d) == CHOOSE side \in Side : Inbound(side) = d

\* the codecs that the two sides are built with, for each key material
FirstCodecs ==
    [m \in TestMappings |-> [server |-> NewAsServer(m), client |-> NewAsClient(m)]]
FirstCodec(side) == FirstCodecs[mappings][side]

(* C24: in each direction the payload of the k-th frame is XORed with the  *)
(* keystream from the offset that is the sum of the payload lengths of the *)
(* frames before it, on the wire as written and in what decode yields;     *)
(* headers and empty payloads take no keystream, so each cipher stands at  *)
(* the sum of the payload lengths it has processed; and processing a ++ b  *)
(* with one cipher state gives the bytes of processing a and then b.       *)
C24_ContinuousKeystream ==
    \A d \in Dir :
        LET wrote == FirstCodec(Writer(d)).send_rc4
            read == FirstCodec(Reader(d)).recv_rc4
        IN  /\ src[d] \o out[d] = WireFrom(sent[d], Len(rcvd[d]) + 1, wrote)
            /\ \A k \in 1..Len(rcvd[d]) :
                  rcvd[d][k] = Crypt(Crypt(sent[d][k], wrote, PayloadBytes(sent[d], k - 1)),
                                     read, PayloadBytes(rcvd[d], k - 1))
            /\ codec[Writer(d)] # NoCodec =>
                  codec[Writer(d)].send_rc4
                      = Advance(wrote, PayloadBytes(sent[d], Len(sent[d])))
            /\ codec[Reader(d)] # NoCodec =>
                  codec[Reader(d)].recv_rc4
                      = Advance(read, PayloadBytes(rcvd[d], Len(rcvd[d])))
            /\ \A a \in {<<1>>, <<7, 200>>} : \A b \in {<<>>, <<3, 4, 5>>} :
                  codec[Writer(d)] # NoCodec =>
                      LET before == codec[Writer(d)].send_rc4
                          half == Rc4Process(before, a)
                      IN  Rc4Process(before, a \o b).bytes
                              = half.bytes \o Rc4Process(half.rc4, b).bytes

C24_Witness ==
    /\ sent["c2s"] = <<FrameOf(7, <<88>>).bytes, FrameOf(255, <<0, 255, 16>>).bytes>>
    /\ Len(rcvd["c2s"]) = 1
    /\ src["c2s"] = <<>>
    /\ out["c2s"] = WireFrom(sent["c2s"], 2, NewAsClient(mappings).send_rc4)
    /\ out["c2s"][6] # 0

\* the other side of the connection
Other(side) == CHOOSE s \in Side : s # side

\* what the reader of direction d yields when only that direction carries
\* frames: the frames of its wire stream, for two codecs in their first state
Alone(d) ==
    PlainFrames(WireFrom(sent[d], 1, FirstCodec(Writer(d)).send_rc4),
                FirstCodec(Reader(d)).recv_rc4)

(* C27: on one codec, however encode and decode calls interleave, encode   *)
(* changes only the send cipher and the outbound buffer, decode only the   *)
(* receive cipher and the inbound buffer; so the frames recovered in each  *)
(* direction are those recovered when the other direction is idle.         *)
C27_HalvesIndependent ==
    /\ [][\A side \in Side :
            /\ (ret'.op = "encode" /\ ret'.side = side) =>
                  /\ codec'[side].recv_rc4 = codec[side].recv_rc4
                  /\ codec'[Other(side)] = codec[Other(side)]
                  /\ src' = src
                  /\ out'[Inbound(side)] = out[Inbound(side)]
                  /\ rcvd' = rcvd
            /\ (ret'.op = "decode" /\ ret'.side = side) =>
                  /\ codec'[side].send_rc4 = codec[side].send_rc4
                  /\ codec'[Other(side)] = codec[Other(side)]
                  /\ out' = out
                  /\ src'[Outbound(side)] = src[Outbound(side)]
                  /\ sent' = sent
                  /\ rcvd'[Outbound(side)] = rcvd[Outbound(side)]
      ]_vars
    /\ [](\A d \in Dir : rcvd[d] = SubSeq(Alone(d), 1, Len(rcvd[d])))

C27_Witness ==
    /\ sent["c2s"] = <<FrameOf(7, <<88>>).bytes>>
    /\ sent["s2c"] = <<FrameOf(255, <<0, 255, 16>>).bytes>>
    /\ rcvd = sent
    /\ ret.op = "decode"

----------------------------------------------------------------------------
(* Claims on the stat types *)

(* C25: from_byte is total on the 256 bytes, Some(t) with t.to_byte() = b  *)
(* for the bytes assigned and None for 23, 24, 25 and 100..255, so get_be  *)
(* of a StatData on a buffer whose first byte is not assigned fails with   *)
(* InvalidData and never aborts.                                           *)
C25_FromByteTotal ==
    /\ \A b \in 0..255 :
          LET typ == StatTypeFromByte(b)
          IN  /\ ~typ.panic
              /\ typ.typ = IF b \in (0..99) \ {23, 24, 25} THEN <<b>> ELSE <<>>
    /\ (Decoded /\ subject.adapter.t = "stat" /\ cursor # <<>>) =>
          /\ get.err.kind # "panic"
          /\ cursor[1] \in {23, 24, 25} \cup (100..255) => get.err.kind = "InvalidData"
          /\ get.res = "Ok" => get.value.typ = cursor[1]

(* C26: parsing a string reads a u30 length n and then consumes exactly n  *)
(* bytes as the content; with fewer than n bytes left it fails with an     *)
(* error and returns no string shorter than n bytes.                       *)
C26_StringLength ==
    (text # NoRes /\ ParseU32(input, build).res = "Ok") =>
        LET length == ParseU32(input, build)
            short == ~WideLe(length.value, Wide(Len(length.rest)))
        IN  /\ short => text.res # "Ok"
            /\ text.res = "Ok" =>
                  /\ Wide(Len(text.value)) = length.value
                  /\ length.rest = text.value \o text.rest

============================================================================
